---- MODULE Spec2Model ----
(***************************************************************************)
(* Model of the steel-plant multi-agent control loop (src/steel_MAS):      *)
(* the control primitives of solvers/rule_based.py, the message bus of     *)
(* protocols/gas_request.py, the gas network of models/gas_network.py,     *)
(* the rule-based agents of agents/, the environment of env/ with the      *)
(* translator and the unit twins of Digital_Twin, and the loop of main.py. *)
(*                                                                         *)
(* Numbers.  The program computes in floating point; the model computes    *)
(* in integers, each quantity in a fixed unit stated where it is defined.  *)
(***************************************************************************)
EXTENDS Integers, Sequences, FiniteSets, TLC

VARIABLES
    bus,        \* MessageBus.messages: the sequence of messages on the bus
    busTime,    \* MessageBus.time
    sentLog,    \* history: the messages sent since the last clear(), in send order
    ret,        \* the value returned by the last call on the bus or on an agent
    hy,         \* the last hysteresis_check call: its arguments and its result
    al,         \* the priority_allocate call: its arguments and its result
    gn,         \* GasNetwork: use_state_space_models and state (soc, p, level per gas)
    bf,         \* BF_Agent: state and hysteresis_states
    bof,        \* BOF_Agent: state and time_to_next_blow
    co,         \* CokeOven_Agent: state
    gh,         \* GasHolder_Agent: state and surge_warning_active
    env,        \* MAS_SimEnv: time and state (the observations)
    acts,       \* the actions the agents returned in the current tick
    pc,         \* the position of the driver that calls the agents
    calls       \* history: the number of calls made so far, which the bounds cap

busVars == <<bus, busTime, sentLog, ret>>
primVars == <<hy, al>>
netVars == <<gn>>
agentVars == <<bf, bof, co, gh>>
loopVars == <<env, acts, pc>>
vars == <<bus, busTime, sentLog, ret, hy, al, gn, bf, bof, co, gh, env, acts, pc, calls>>

Min(a, b) == IF a <= b THEN a ELSE b
Max(a, b) == IF a >= b THEN a ELSE b

\* Python's None, where an optional argument is left out
None == "None"
\* the value of ret after a call that returns nothing
NoReturn == [call |-> "none"]

(***************************************************************************)
(* protocols/gas_request.py: Message and MessageBus                        *)
(***************************************************************************)
MessageTypes == {"gas_request", "gas_response", "bofg_surge_warning",
                 "state_broadcast", "emergency_alert"}

Message(msg_type, sender, receiver, timestamp, data) ==
    [msg_type |-> msg_type, sender |-> sender, receiver |-> receiver,
     timestamp |-> timestamp, data |-> data]

\* MessageBus.__init__: self.messages = []
MessageBusInit == << >>

\* MessageBus.send: self.messages.append(message)
send(messages, message) == Append(messages, message)

\* get_messages with the broadcast sentinel forgotten
get_messages_direct_only(messages, receiver, msg_type) ==
    LET filtered == SelectSeq(messages, LAMBDA msg : msg.receiver = receiver)
    IN  IF msg_type # None
        THEN SelectSeq(filtered, LAMBDA msg : msg.msg_type = msg_type)
        ELSE filtered

\* MessageBus.get_messages: filter on the receiver (or "all"), then on the
\* kind when one is given (msg_type is None or a MessageType, which is truthy)
get_messages(messages, receiver, msg_type) ==
    LET filtered == SelectSeq(messages,
                        LAMBDA msg : msg.receiver = receiver \/ msg.receiver = "all")
    IN  IF msg_type # None
        THEN SelectSeq(filtered, LAMBDA msg : msg.msg_type = msg_type)
        ELSE filtered

\* a clear() that leaves a stale broadcast on the bus
clear_leaves_stale(messages) ==
    <<Message("state_broadcast", "MAS_SimEnv", "all", 0, << >>)>>

\* MessageBus.clear: self.messages = []
clear(messages) == << >>

(***************************************************************************)
(* solvers/rule_based.py: RuleBasedController                              *)
(***************************************************************************)
\* a clamp that only enforces the upper end
clamp_upper_only(value, min_val, max_val) == Min(max_val, value)

\* clamp: max(min_val, min(max_val, value))
clamp(value, min_val, max_val) == Max(min_val, Min(max_val, value))

\* hysteresis_check releasing on the outer band instead of the half band
hysteresis_check_full_band(current_value, target, upper_band, lower_band, current_state) ==
    IF current_value > target + upper_band
    THEN <<TRUE, "above_upper_band">>
    ELSE IF current_value < target - lower_band
    THEN <<TRUE, "below_lower_band">>
    ELSE IF current_state
            /\ target - lower_band <= current_value
            /\ current_value <= target + upper_band
    THEN <<TRUE, "within_hysteresis">>
    ELSE <<FALSE, "normal">>

\* hysteresis_check.  The half bands lower_band/2 and upper_band/2 are
\* compared exactly by doubling both sides.
hysteresis_check(current_value, target, upper_band, lower_band, current_state) ==
    IF current_value > target + upper_band
    THEN <<TRUE, "above_upper_band">>
    ELSE IF current_value < target - lower_band
    THEN <<TRUE, "below_lower_band">>
    ELSE IF current_state
            /\ 2 * target - lower_band <= 2 * current_value
            /\ 2 * current_value <= 2 * target + upper_band
    THEN <<TRUE, "within_hysteresis">>
    ELSE <<FALSE, "normal">>

\* float('inf'), the default max_val of incremental_adjust
inf == 2147483647

\* incremental_adjust without the final clamp
incremental_adjust_unclamped(current_value, direction, step_size, min_val, max_val) ==
    IF direction = "increase"
    THEN (current_value * (100 + step_size)) \div 100
    ELSE IF direction = "decrease"
    THEN (current_value * (100 - step_size)) \div 100
    ELSE current_value

\* incremental_adjust: current_value * (1 +/- step_size), clamped to
\* [min_val, max_val].  step_size is in hundredths (0.05 is 5) and the
\* product is rounded down to the unit of the value.
incremental_adjust(current_value, direction, step_size, min_val, max_val) ==
    LET new_value == IF direction = "increase"
                     THEN (current_value * (100 + step_size)) \div 100
                     ELSE IF direction = "decrease"
                     THEN (current_value * (100 - step_size)) \div 100
                     ELSE current_value
    IN  clamp(new_value, min_val, max_val)

\* sorted(demands.keys(), key=lambda x: priorities.get(x, 0), reverse=True):
\* descending by priority; Python's sort is stable, also with reverse=True,
\* so consumers of equal priority keep the order of the demands' keys.
prio_get(priorities, x) == IF x \in DOMAIN priorities THEN priorities[x] ELSE 0

RECURSIVE insert_desc(_, _, _)
insert_desc(sorted, x, priorities) ==
    IF sorted = << >> THEN <<x>>
    ELSE IF prio_get(priorities, Head(sorted)) >= prio_get(priorities, x)
    THEN <<Head(sorted)>> \o insert_desc(Tail(sorted), x, priorities)
    ELSE <<x>> \o sorted

\* the sort with reverse=True forgotten: ascending by priority
RECURSIVE insert_asc(_, _, _)
insert_asc(sorted, x, priorities) ==
    IF sorted = << >> THEN <<x>>
    ELSE IF prio_get(priorities, Head(sorted)) <= prio_get(priorities, x)
    THEN <<Head(sorted)>> \o insert_asc(Tail(sorted), x, priorities)
    ELSE <<x>> \o sorted

RECURSIVE sorted_consumers_asc(_, _)
sorted_consumers_asc(keys, priorities) ==
    IF keys = << >> THEN << >>
    ELSE insert_asc(sorted_consumers_asc(SubSeq(keys, 1, Len(keys) - 1), priorities),
                    keys[Len(keys)], priorities)

RECURSIVE sorted_consumers(_, _)
sorted_consumers(keys, priorities) ==
    IF keys = << >> THEN << >>
    ELSE insert_desc(sorted_consumers(SubSeq(keys, 1, Len(keys) - 1), priorities),
                     keys[Len(keys)], priorities)

\* the loop granting each demand in full, without the min() against remaining
RECURSIVE allocate_loop_no_min(_, _, _, _)
allocate_loop_no_min(consumers, demands, remaining, allocation) ==
    IF consumers = << >> THEN allocation
    ELSE LET consumer  == Head(consumers)
             allocated == demands[consumer]
             alloc1    == (consumer :> allocated) @@ allocation
         IN  IF remaining - allocated <= 0
             THEN alloc1
             ELSE allocate_loop_no_min(Tail(consumers), demands,
                                       remaining - allocated, alloc1)

\* The for loop of priority_allocate over the sorted consumers: each gets
\* min(demand, remaining); the loop breaks once remaining <= 0.
RECURSIVE allocate_loop(_, _, _, _)
allocate_loop(consumers, demands, remaining, allocation) ==
    IF consumers = << >> THEN allocation
    ELSE LET consumer  == Head(consumers)
             allocated == Min(demands[consumer], remaining)
             alloc1    == (consumer :> allocated) @@ allocation
         IN  IF remaining - allocated <= 0
             THEN alloc1
             ELSE allocate_loop(Tail(consumers), demands, remaining - allocated, alloc1)

\* priority_allocate skipping the consumers ranked at priority 0
priority_allocate_skip_zero(available, keys, demands, priorities) ==
    LET ranked == SelectSeq(sorted_consumers(keys, priorities),
                            LAMBDA x : prio_get(priorities, x) # 0)
        allocation == allocate_loop(ranked, demands, available, << >>)
    IN  [consumer \in DOMAIN demands |->
            IF consumer \in DOMAIN allocation THEN allocation[consumer] ELSE 0]

\* priority_allocate(available, demands, priorities); keys is the order of
\* the demands' keys.  Consumers the loop did not reach are filled with 0.
priority_allocate(available, keys, demands, priorities) ==
    LET allocation == allocate_loop(sorted_consumers(keys, priorities), demands,
                                    available, << >>)
    IN  [consumer \in DOMAIN demands |->
            IF consumer \in DOMAIN allocation THEN allocation[consumer] ELSE 0]

(***************************************************************************)
(* models/gas_network.py: GasNetwork                                       *)
(*                                                                         *)
(* Units.  Flows are whole Nm^3/h and timesteps whole minutes.  A state of *)
(* charge is an integer number of 1/SOC_ONE, and a pressure an integer     *)
(* number of 1/SOC_ONE kPa.  SOC_ONE is a multiple of 60 * capacity for    *)
(* each of the three capacities, so every delta_soc is exact.              *)
(***************************************************************************)
SOC_ONE == 72000000

\* "x.yz" as a state of charge: hundredths of 1.0
Soc(hundredths) == hundredths * (SOC_ONE \div 100)
\* kPa as a pressure
Kpa(k) == k * SOC_ONE

\* pressures in tenths of a kPa
Kpa10(t) == t * (SOC_ONE \div 10)

Gas == {"bfg", "bofg", "cog"}

\* self.capacities
capacities == [bfg |-> 400000, bofg |-> 150000, cog |-> 100000]

\* self.pressure_params
pressure_params == [p_min |-> 8, p_range |-> 8]

\* the characters of the demand labels and of the gas type tags
Chars == [bfg            |-> <<"b","f","g">>,
          bofg           |-> <<"b","o","f","g">>,
          cog            |-> <<"c","o","g">>,
          bfg_to_pp      |-> <<"b","f","g","_","t","o","_","p","p">>,
          bfg_to_heating |-> <<"b","f","g","_","t","o","_","h","e","a","t","i","n","g">>,
          bofg_to_pp     |-> <<"b","o","f","g","_","t","o","_","p","p">>,
          bofg_to_heating |-> <<"b","o","f","g","_","t","o","_","h","e","a","t","i","n","g">>,
          cog_to_heating |-> <<"c","o","g","_","t","o","_","h","e","a","t","i","n","g">>,
          cog_to_bf      |-> <<"c","o","g","_","t","o","_","b","f">>,
          BOFG_to_pp     |-> <<"B","O","F","G","_","t","o","_","p","p">>,
          cog_to_bfg_mix |-> <<"c","o","g","_","t","o","_","b","f","g","_","m","i","x">>,
          pp_demand      |-> <<"p","p","_","d","e","m","a","n","d">>]

\* str.lower() on the letters that occur in upper case
lower_char(ch) == CASE ch = "B" -> "b" [] ch = "O" -> "o" [] ch = "F" -> "f"
                    [] ch = "G" -> "g" [] ch = "C" -> "c" [] OTHER -> ch
lower(str) == [i \in 1..Len(str) |-> lower_char(str[i])]

\* sub in str
contains(str, sub) ==
    \E i \in 1..(Len(str) - Len(sub) + 1) : SubSeq(str, i, i + Len(sub) - 1) = sub

\* gas_type in key.lower(), for every label and gas type (evaluated once)
tag_in_label == [key \in DOMAIN Chars |->
                    [gas_type \in Gas |-> contains(lower(Chars[key]), Chars[gas_type])]]

RECURSIVE sum_values(_, _)
sum_values(d, keys) == IF keys = {} THEN 0
                       ELSE LET k == CHOOSE x \in keys : TRUE
                            IN  d[k] + sum_values(d, keys \ {k})

\* a variant of _calculate_net_flow that matches the label as written,
\* without lower()
calculate_net_flow_case_sensitive(gas_type, gas_production, gas_demands) ==
    LET production == IF gas_type \in DOMAIN gas_production
                      THEN gas_production[gas_type] ELSE 0
        consumption == sum_values(gas_demands,
                          {key \in DOMAIN gas_demands :
                              contains(Chars[key], Chars[gas_type])})
    IN  production - consumption

\* _calculate_net_flow: production.get(gas_type, 0.0) minus the demands
\* whose lower-cased label contains the gas type
calculate_net_flow(gas_type, gas_production, gas_demands) ==
    LET production == IF gas_type \in DOMAIN gas_production
                      THEN gas_production[gas_type] ELSE 0
        consumption == sum_values(gas_demands,
                          {key \in DOMAIN gas_demands : tag_in_label[key][gas_type]})
    IN  production - consumption

\* np.clip(a, a_min, a_max)
np_clip(a, a_min, a_max) == Min(Max(a, a_min), a_max)

\* delta_soc = (net_flow / 3600) * timestep * 60 / capacity, which is
\* net_flow * timestep / (60 * capacity)
delta_soc(net_flow, timestep, capacity) ==
    net_flow * timestep * (SOC_ONE \div (60 * capacity))

\* new_soc of _update_holder with the clip left out
new_soc_unclipped(current_soc, net_flow, timestep, capacity) ==
    current_soc + delta_soc(net_flow, timestep, capacity)

\* new_soc of _update_holder: the integration step, clipped to [0.05, 0.95]
new_soc(current_soc, net_flow, timestep, capacity) ==
    np_clip(current_soc + delta_soc(net_flow, timestep, capacity), Soc(5), Soc(95))

\* new_p of _update_holder: p_min + new_soc * p_range
new_p(soc) == Kpa(pressure_params.p_min) + soc * pressure_params.p_range

\* What the attached state-space model does when called: it returns a
\* level (Digital_Twin arithmetic outside this model: some value) or raises.
ModelLevel == 13976
ModelOutcomes == {"level", "raise"}

\* _update_holder with the pressure taken from the state of charge before
\* the clip
update_holder_p_before_clip(st, use_model, gas_type, net_flow, timestep, outcome) ==
    LET soc1 == new_soc(st.soc[gas_type], net_flow, timestep, capacities[gas_type])
        level == IF use_model
                 THEN (IF outcome = "level" THEN ModelLevel ELSE soc1)
                 ELSE soc1
    IN  [soc   |-> [st.soc EXCEPT ![gas_type] = soc1],
         p     |-> [st.p EXCEPT ![gas_type] =
                      new_p(new_soc_unclipped(st.soc[gas_type], net_flow, timestep,
                                              capacities[gas_type]))],
         level |-> [st.level EXCEPT ![gas_type] = level]]

\* a variant of _update_holder in which a failing model ends the holder's
\* update before the state is written
update_holder_failure_skips(st, use_model, gas_type, net_flow, timestep, outcome) ==
    LET soc1 == new_soc(st.soc[gas_type], net_flow, timestep, capacities[gas_type])
    IN  IF use_model /\ outcome = "raise"
        THEN st
        ELSE [soc   |-> [st.soc EXCEPT ![gas_type] = soc1],
              p     |-> [st.p EXCEPT ![gas_type] = new_p(soc1)],
              level |-> [st.level EXCEPT ![gas_type] =
                           IF use_model THEN ModelLevel ELSE soc1]]

\* _update_holder(gas_type, net_flow, timestep) on the state st; outcome is
\* what the attached state-space model does, if there is one
update_holder(st, use_model, gas_type, net_flow, timestep, outcome) ==
    LET soc1 == new_soc(st.soc[gas_type], net_flow, timestep, capacities[gas_type])
        level == IF use_model
                 THEN (IF outcome = "level" THEN ModelLevel ELSE soc1)
                 ELSE soc1
    IN  [soc   |-> [st.soc EXCEPT ![gas_type] = soc1],
         p     |-> [st.p EXCEPT ![gas_type] = new_p(soc1)],
         level |-> [st.level EXCEPT ![gas_type] = level]]

\* GasNetworkState(soc=0.5, p=12.0, level=0.5) for each gas
GasNetworkBaseline ==
    [soc   |-> [g \in Gas |-> Soc(50)],
     p     |-> [g \in Gas |-> Kpa(12)],
     level |-> [g \in Gas |-> Soc(50)]]

\* GasNetwork.update: the three net flows, then the three holders in turn
update(st, use_model, gas_production, gas_demands, timestep, outcomes) ==
    LET bfg_net  == calculate_net_flow("bfg", gas_production, gas_demands)
        bofg_net == calculate_net_flow("bofg", gas_production, gas_demands)
        cog_net  == calculate_net_flow("cog", gas_production, gas_demands)
        st1 == update_holder(st, use_model, "bfg", bfg_net, timestep, outcomes["bfg"])
        st2 == update_holder(st1, use_model, "bofg", bofg_net, timestep, outcomes["bofg"])
    IN  update_holder(st2, use_model, "cog", cog_net, timestep, outcomes["cog"])

(***************************************************************************)
(* solvers/rule_based.py: SafetyLimits, and the units of the agents'      *)
(* quantities.  Observed states of charge and pressures are in the units   *)
(* of the gas network; temperatures are whole degrees; observed gas and    *)
(* oxygen flows are whole Nm^3/h; Si is in 0.001 %.                        *)
(***************************************************************************)
\* wind_volume in 0.1 Nm^3/min
BF_WIND_MIN == 10000
BF_WIND_MAX == 80000
\* O2_enrichment in 0.001 %
BF_O2_MAX == 6000
\* PCI in 0.01 kg/t
BF_PCI_MAX == 20000
BF_TEMP_MAX == 1600
\* Si in 0.001 %
BF_SI_MAX == 800
\* oxygen in 0.1 Nm^3/h
BOF_O2_MAX == 600000
BOF_P_MAX == Kpa(15)

\* observations.get(key, default)
obs_get(observations, key, default) ==
    IF key \in DOMAIN observations THEN observations[key] ELSE default

\* the least integer q with q * d >= n, for n >= 0 and d > 0
CeilDiv(n, d) == (n + d - 1) \div d

(***************************************************************************)
(* agents/bf_agent.py: BF_Agent                                            *)
(***************************************************************************)
\* BF_Agent.__init__.  COG_ratio is in 0.0001, Si_target in 0.001 %.
BF_AgentInit ==
    [state |-> [wind_volume |-> 40000, O2_enrichment |-> 3500, PCI |-> 15000,
                COG_ratio |-> 2000, Si_target |-> 450, T_target |-> 1500],
     hysteresis_states |-> [gh_full_action_active |-> FALSE,
                            gh_empty_action_active |-> FALSE,
                            si_high_action_active |-> FALSE,
                            si_low_action_active |-> FALSE]]

\* self.Si_band (0.03), self.SOC_high, self.SOC_low, self.P_high, self.P_low
Si_band == 30
SOC_high == Soc(85)
SOC_low == Soc(25)
P_high == Kpa(14)
P_low == Kpa(9)

\* _apply_safety_rules (Level 1)
BF_apply_safety_rules(a, Si, T_hot_metal, O2_available) ==
    LET wind == clamp(a.state.wind_volume, BF_WIND_MIN, BF_WIND_MAX)
        o2   == clamp(a.state.O2_enrichment, 0, BF_O2_MAX)
        hot  == T_hot_metal > BF_TEMP_MAX
        pci1 == IF hot THEN incremental_adjust(a.state.PCI, "decrease", 20, 0, inf)
                ELSE a.state.PCI
        o21  == IF hot THEN incremental_adjust(o2, "decrease", 20, 0, inf) ELSE o2
        pci2 == IF Si > BF_SI_MAX THEN incremental_adjust(pci1, "decrease", 5, 0, inf)
                ELSE pci1
    IN  [a EXCEPT !.state.wind_volume = wind, !.state.O2_enrichment = o21,
                  !.state.PCI = pci2]

\* _apply_process_rules (Level 2).  Si_band/2 is compared exactly by
\* doubling both sides.
BF_apply_process_rules(a, Si) ==
    LET Si_target == a.state.Si_target
        high == Si > Si_target + Si_band
        a1 == IF high
              THEN [a EXCEPT !.hysteresis_states.si_high_action_active = TRUE,
                      !.state.PCI = incremental_adjust(a.state.PCI, "decrease", 10, 0, inf),
                      !.state.O2_enrichment =
                          incremental_adjust(a.state.O2_enrichment, "decrease", 10, 0, inf)]
              ELSE IF 2 * Si < 2 * Si_target + Si_band
              THEN [a EXCEPT !.hysteresis_states.si_high_action_active = FALSE]
              ELSE a
        low == Si < Si_target - Si_band
    IN  IF low
        THEN [a1 EXCEPT !.hysteresis_states.si_low_action_active = TRUE,
                !.state.PCI = incremental_adjust(a1.state.PCI, "increase", 10, 0, BF_PCI_MAX),
                !.state.wind_volume =
                    incremental_adjust(a1.state.wind_volume, "increase", 10, 0, BF_WIND_MAX)]
        ELSE IF 2 * Si > 2 * Si_target - Si_band
        THEN [a1 EXCEPT !.hysteresis_states.si_low_action_active = FALSE]
        ELSE a1

\* _apply_energy_rules (Level 3)
BF_apply_energy_rules(a, SOC_bfg, P_bfg, COG_available, COG_required, O2_available) ==
    LET a1 == IF SOC_bfg > SOC_high \/ P_bfg > P_high
              THEN [a EXCEPT !.hysteresis_states.gh_full_action_active = TRUE,
                      !.state.wind_volume =
                          incremental_adjust(a.state.wind_volume, "decrease", 15,
                                             BF_WIND_MIN, inf),
                      !.state.PCI = incremental_adjust(a.state.PCI, "decrease", 12, 0, inf),
                      !.state.O2_enrichment =
                          incremental_adjust(a.state.O2_enrichment, "decrease", 15, 0, inf)]
              ELSE IF SOC_bfg < Soc(75) /\ P_bfg < Kpa(13)
              THEN [a EXCEPT !.hysteresis_states.gh_full_action_active = FALSE]
              ELSE a
        a2 == IF SOC_bfg < SOC_low \/ P_bfg < P_low
              THEN [a1 EXCEPT !.hysteresis_states.gh_empty_action_active = TRUE,
                      !.state.wind_volume =
                          incremental_adjust(a1.state.wind_volume, "increase", 15,
                                             0, BF_WIND_MAX),
                      !.state.PCI =
                          incremental_adjust(a1.state.PCI, "increase", 12, 0, BF_PCI_MAX)]
              ELSE IF SOC_bfg > Soc(30) /\ P_bfg > Kpa(10)
              THEN [a1 EXCEPT !.hysteresis_states.gh_empty_action_active = FALSE]
              ELSE a1
        a3 == IF COG_available < COG_required
              THEN [a2 EXCEPT
                      !.state.COG_ratio =
                          incremental_adjust(a2.state.COG_ratio, "decrease", 10, 0, inf),
                      !.state.PCI =
                          incremental_adjust(a2.state.PCI, "increase", 5, 0, BF_PCI_MAX)]
              ELSE a2
        \* O2_required = O2_enrichment * wind_volume / 100, in Nm^3: the
        \* product of the two integers is in 0.0001 * 100 Nm^3
        O2_required_ceil == CeilDiv(a3.state.O2_enrichment * a3.state.wind_volume, 1000000)
    IN  IF O2_available < O2_required_ceil
        THEN [a3 EXCEPT
                !.state.O2_enrichment =
                    incremental_adjust(a3.state.O2_enrichment, "decrease", 10, 0, inf),
                !.state.PCI =
                    incremental_adjust(a3.state.PCI, "increase", 4, 0, BF_PCI_MAX)]
        ELSE a3

\* a variant of _apply_economic_rules that leaves the wind alone in a step
\* whose Level 3 already answered a full gas holder
BF_apply_economic_rules_unless_full(a, peak_electricity) ==
    IF peak_electricity /\ ~a.hysteresis_states.gh_full_action_active
    THEN [a EXCEPT !.state.wind_volume =
                      incremental_adjust(a.state.wind_volume, "decrease", 5,
                                         BF_WIND_MIN, inf)]
    ELSE a

\* _apply_economic_rules (Level 4)
BF_apply_economic_rules(a, peak_electricity) ==
    IF peak_electricity
    THEN [a EXCEPT !.state.wind_volume =
                      incremental_adjust(a.state.wind_volume, "decrease", 5,
                                         BF_WIND_MIN, inf)]
    ELSE a

\* BF_Agent.step: the observations with their defaults, then the four
\* levels in order; the agent after the step (its state is the action)
BF_step(a, observations) ==
    LET Si               == obs_get(observations, "Si", 450)
        T_hot_metal      == obs_get(observations, "T_hot_metal", 1500)
        SOC_bfg          == obs_get(observations, "SOC_bfg", Soc(50))
        P_bfg            == obs_get(observations, "P_bfg", Kpa(12))
        COG_available    == obs_get(observations, "COG_available", 10000)
        COG_required     == obs_get(observations, "COG_required", 8000)
        O2_available     == obs_get(observations, "O2_available", 50000)
        peak_electricity == obs_get(observations, "peak_electricity", FALSE)
        a1 == BF_apply_safety_rules(a, Si, T_hot_metal, O2_available)
        a2 == BF_apply_process_rules(a1, Si)
        a3 == BF_apply_energy_rules(a2, SOC_bfg, P_bfg, COG_available, COG_required,
                                    O2_available)
    IN  BF_apply_economic_rules(a3, peak_electricity)

(***************************************************************************)
(* agents/bof_agent.py: BOF_Agent                                          *)
(***************************************************************************)
\* BOF_Agent.__init__.  scrap_steel is in 0.01 t, times are whole minutes.
BOF_AgentInit ==
    [state |-> [oxygen |-> 450000, scrap_steel |-> 2000, T_target |-> 1650,
                blow_time |-> 0, blow_duration |-> 18],
     time_to_next_blow |-> 30]

\* _apply_safety_rules (Level 1)
BOF_apply_safety_rules(a, P_bof_gas) ==
    LET oxygen == clamp(a.state.oxygen, 0, BOF_O2_MAX)
    IN  [a EXCEPT !.state.oxygen =
            IF P_bof_gas > BOF_P_MAX
            THEN incremental_adjust(oxygen, "decrease", 10, 0, inf)
            ELSE oxygen]

\* _apply_process_rules (Level 2); the scrap maximum 30 is 3000
BOF_apply_process_rules(a, T_steel) ==
    LET T_target == a.state.T_target
    IN  IF T_steel > T_target + 20
        THEN [a EXCEPT
                !.state.oxygen = incremental_adjust(a.state.oxygen, "decrease", 3, 0, inf),
                !.state.scrap_steel =
                    incremental_adjust(a.state.scrap_steel, "increase", 2, 0, 3000)]
        ELSE IF T_steel < T_target - 20
        THEN [a EXCEPT !.state.oxygen =
                incremental_adjust(a.state.oxygen, "increase", 3, 0, BOF_O2_MAX)]
        ELSE a

\* BOFGSurgeWarning(...).to_message(timestamp)
BOFGSurgeWarning(time_to_blow, expected_peak, duration, current_gh_soc, timestamp) ==
    Message("bofg_surge_warning", "BOFAgent", "GasHolderAgent", timestamp,
            [time_to_blow |-> time_to_blow, expected_peak |-> expected_peak,
             duration |-> duration, gh_soc |-> current_gh_soc])

\* a variant that reports the countdown the step leaves behind
BOF_warnings_after_decrement(a, SOC_bofg, has_bus, time) ==
    IF a.time_to_next_blow <= 2 /\ has_bus
    THEN <<BOFGSurgeWarning(Max(0, a.time_to_next_blow - 1), 60000,
                            a.state.blow_duration, SOC_bofg, time)>>
    ELSE << >>

\* the messages _apply_energy_rules sends: one surge warning when the
\* countdown is at most 2.0 and a bus was passed (message_bus is not None)
BOF_warnings(a, SOC_bofg, has_bus, time) ==
    IF a.time_to_next_blow <= 2 /\ has_bus
    THEN <<BOFGSurgeWarning(a.time_to_next_blow, 60000, a.state.blow_duration,
                            SOC_bofg, time)>>
    ELSE << >>

\* _apply_energy_rules (Level 3), the agent's part: throttle above 1.3
\* times the design rate 50000 when the holder is pressurized
BOF_apply_energy_rules(a, bof_gas_current, SOC_bofg, P_bofg) ==
    IF bof_gas_current > 65000 /\ P_bofg > Kpa(14)
    THEN [a EXCEPT !.state.oxygen =
            incremental_adjust(a.state.oxygen, "decrease", 10, 0, inf)]
    ELSE a

\* a variant of BOF_Agent.step whose countdown starts again from 30 when
\* it has run out
BOF_step_restarting(a, observations) ==
    LET T_steel         == obs_get(observations, "T_steel", 1650)
        P_bof_gas       == obs_get(observations, "P_bof_gas", Kpa(12))
        bof_gas_current == obs_get(observations, "bof_gas_current", 30000)
        SOC_bofg        == obs_get(observations, "SOC_bofg", Soc(50))
        P_bofg          == obs_get(observations, "P_bofg", Kpa(12))
        a1 == BOF_apply_safety_rules(a, P_bof_gas)
        a2 == BOF_apply_process_rules(a1, T_steel)
        a3 == BOF_apply_energy_rules(a2, bof_gas_current, SOC_bofg, P_bofg)
    IN  [a3 EXCEPT !.time_to_next_blow =
                       IF a3.time_to_next_blow <= 1 THEN 30
                       ELSE a3.time_to_next_blow - 1]

\* BOF_Agent.step: the agent after the step, countdown decremented
BOF_step(a, observations) ==
    LET T_steel         == obs_get(observations, "T_steel", 1650)
        P_bof_gas       == obs_get(observations, "P_bof_gas", Kpa(12))
        bof_gas_current == obs_get(observations, "bof_gas_current", 30000)
        SOC_bofg        == obs_get(observations, "SOC_bofg", Soc(50))
        P_bofg          == obs_get(observations, "P_bofg", Kpa(12))
        a1 == BOF_apply_safety_rules(a, P_bof_gas)
        a2 == BOF_apply_process_rules(a1, T_steel)
        a3 == BOF_apply_energy_rules(a2, bof_gas_current, SOC_bofg, P_bofg)
    IN  [a3 EXCEPT !.time_to_next_blow = Max(0, a3.time_to_next_blow - 1)]

\* the messages BOF_Agent.step appends to the bus it was passed
BOF_step_sends(a, observations, has_bus, time) ==
    LET P_bof_gas == obs_get(observations, "P_bof_gas", Kpa(12))
        T_steel   == obs_get(observations, "T_steel", 1650)
        SOC_bofg  == obs_get(observations, "SOC_bofg", Soc(50))
        a2 == BOF_apply_process_rules(BOF_apply_safety_rules(a, P_bof_gas), T_steel)
    IN  BOF_warnings(a2, SOC_bofg, has_bus, time)

(***************************************************************************)
(* agents/coke_oven_agent.py: CokeOven_Agent                               *)
(***************************************************************************)
CO_TEMP_MAX == 1400
CO_TEMP_MIN == 1000

\* CokeOven_Agent.__init__.  heating_gas_input is in whole Nm^3/h,
\* pushing_rate in 0.0001 of the nominal rate.
CokeOven_AgentInit ==
    [state |-> [heating_gas_input |-> 15000, pushing_rate |-> 10000, T_target |-> 1200]]

\* self.T_band
T_band == 20

\* _apply_safety_rules (Level 1)
CO_apply_safety_rules(a, T_furnace) ==
    LET h1 == IF T_furnace > CO_TEMP_MAX
              THEN incremental_adjust(a.state.heating_gas_input, "decrease", 10, 5000, inf)
              ELSE a.state.heating_gas_input
        h2 == IF T_furnace < CO_TEMP_MIN
              THEN incremental_adjust(h1, "increase", 10, 0, 25000)
              ELSE h1
    IN  [a EXCEPT !.state.heating_gas_input = h2]

\* _apply_process_rules (Level 2)
CO_apply_process_rules(a, T_furnace) ==
    LET T_target == a.state.T_target
    IN  IF T_furnace < T_target - T_band
        THEN [a EXCEPT !.state.heating_gas_input =
                incremental_adjust(a.state.heating_gas_input, "increase", 3, 0, 25000)]
        ELSE IF T_furnace > T_target + T_band
        THEN [a EXCEPT !.state.heating_gas_input =
                incremental_adjust(a.state.heating_gas_input, "decrease", 3, 5000, inf)]
        ELSE a

\* _apply_energy_rules (Level 3); 1.0 is 10000, 0.7 is 7000, 1.2 is 12000
CO_apply_energy_rules(a, SOC_cog) ==
    LET r1 == IF SOC_cog > Soc(85)
              THEN incremental_adjust(a.state.pushing_rate, "decrease", 5, 7000, inf)
              ELSE IF SOC_cog < Soc(75)
              THEN Min(10000, (a.state.pushing_rate * 102) \div 100)
              ELSE a.state.pushing_rate
        r2 == IF SOC_cog < Soc(25)
              THEN incremental_adjust(r1, "increase", 3, 0, 12000)
              ELSE IF SOC_cog > Soc(35) /\ r1 > 10000
              THEN Max(10000, (r1 * 98) \div 100)
              ELSE r1
    IN  [a EXCEPT !.state.pushing_rate = r2]

\* CokeOven_Agent.step
CO_step(a, observations) ==
    LET T_furnace == obs_get(observations, "T_furnace", 1200)
        SOC_cog   == obs_get(observations, "SOC_cog", Soc(50))
        a1 == CO_apply_safety_rules(a, T_furnace)
        a2 == CO_apply_process_rules(a1, T_furnace)
    IN  CO_apply_energy_rules(a2, SOC_cog)

(***************************************************************************)
(* agents/gas_holder_agent.py: GasHolder_Agent                             *)
(***************************************************************************)
GH_P_EMERGENCY == Kpa(16)
GH_SOC_MIN == Soc(5)

\* GasHolder_Agent.__init__: the agent_id the loop gives it, and the
\* outflows in whole Nm^3/h
GasHolder_AgentInit ==
    [agent_id |-> "GH1",
     state |-> [bfg_to_pp |-> 50000, bfg_to_heating |-> 30000,
                bofg_to_pp |-> 20000, bofg_to_heating |-> 10000,
                cog_to_heating |-> 8000, cog_to_bf |-> 5000],
     surge_warning_active |-> FALSE]

\* value *= 0.98 above the nominal, value *= 1.02 below it
drift(value, nominal) ==
    IF value > nominal THEN (value * 98) \div 100
    ELSE IF value < nominal THEN (value * 102) \div 100
    ELSE value

\* a variant of _control_bfgh whose drift to the nominal values runs on
\* every call, after whichever branch was taken
GH_control_bfgh_drift_always(a, soc, p) ==
    LET pp == a.state.bfg_to_pp
        ht == a.state.bfg_to_heating
        set(x, y) == [a EXCEPT !.state.bfg_to_pp = x, !.state.bfg_to_heating = y]
        b == IF p > GH_P_EMERGENCY
             THEN set(incremental_adjust(pp, "increase", 20, 0, 80000),
                      incremental_adjust(ht, "increase", 10, 0, 50000))
             ELSE IF soc < GH_SOC_MIN
             THEN set(incremental_adjust(pp, "decrease", 20, 10000, inf),
                      incremental_adjust(ht, "decrease", 20, 5000, inf))
             ELSE IF soc > Soc(85) \/ p > Kpa(14)
             THEN set(incremental_adjust(pp, "increase", 10, 0, 80000),
                      incremental_adjust(ht, "increase", 5, 0, 50000))
             ELSE IF soc < Soc(25) \/ p < Kpa(9)
             THEN set(incremental_adjust(pp, "decrease", 10, 10000, inf),
                      incremental_adjust(ht, "decrease", 8, 5000, inf))
             ELSE a
    IN  [b EXCEPT !.state.bfg_to_pp = drift(b.state.bfg_to_pp, 50000),
                  !.state.bfg_to_heating = drift(b.state.bfg_to_heating, 30000)]

\* _control_bfgh
GH_control_bfgh(a, soc, p) ==
    LET pp == a.state.bfg_to_pp
        ht == a.state.bfg_to_heating
        set(x, y) == [a EXCEPT !.state.bfg_to_pp = x, !.state.bfg_to_heating = y]
    IN  IF p > GH_P_EMERGENCY
        THEN set(incremental_adjust(pp, "increase", 20, 0, 80000),
                 incremental_adjust(ht, "increase", 10, 0, 50000))
        ELSE IF soc < GH_SOC_MIN
        THEN set(incremental_adjust(pp, "decrease", 20, 10000, inf),
                 incremental_adjust(ht, "decrease", 20, 5000, inf))
        ELSE IF soc > Soc(85) \/ p > Kpa(14)
        THEN set(incremental_adjust(pp, "increase", 10, 0, 80000),
                 incremental_adjust(ht, "increase", 5, 0, 50000))
        ELSE IF soc < Soc(25) \/ p < Kpa(9)
        THEN set(incremental_adjust(pp, "decrease", 10, 10000, inf),
                 incremental_adjust(ht, "decrease", 8, 5000, inf))
        ELSE IF Soc(35) < soc /\ soc < Soc(75) /\ Kpa(10) < p /\ p < Kpa(13)
        THEN set(drift(pp, 50000), drift(ht, 30000))
        ELSE a

\* a variant of _control_bofgh whose surge preparation has no lower limits
GH_control_bofgh_surge_unlimited(a, soc, p, surge_warning) ==
    LET pp == a.state.bofg_to_pp
        ht == a.state.bofg_to_heating
    IN  IF surge_warning
        THEN [a EXCEPT !.state.bofg_to_pp =
                           incremental_adjust(pp, "decrease", 20, 0, inf),
                       !.state.bofg_to_heating =
                           incremental_adjust(ht, "decrease", 15, 0, inf)]
        ELSE IF p > GH_P_EMERGENCY
        THEN [a EXCEPT !.state.bofg_to_pp =
                           incremental_adjust(pp, "increase", 20, 0, 40000)]
        ELSE IF soc < GH_SOC_MIN
        THEN [a EXCEPT !.state.bofg_to_pp =
                           incremental_adjust(pp, "decrease", 20, 5000, inf)]
        ELSE IF soc > Soc(85) \/ p > Kpa(14)
        THEN [a EXCEPT !.state.bofg_to_pp =
                           incremental_adjust(pp, "increase", 10, 0, 40000)]
        ELSE IF soc < Soc(25) \/ p < Kpa(9)
        THEN [a EXCEPT !.state.bofg_to_pp =
                           incremental_adjust(pp, "decrease", 10, 5000, inf)]
        ELSE a

\* _control_bofgh
GH_control_bofgh(a, soc, p, surge_warning) ==
    LET pp == a.state.bofg_to_pp
        ht == a.state.bofg_to_heating
    IN  IF surge_warning
        THEN [a EXCEPT !.state.bofg_to_pp =
                           incremental_adjust(pp, "decrease", 20, 5000, inf),
                       !.state.bofg_to_heating =
                           incremental_adjust(ht, "decrease", 15, 3000, inf)]
        ELSE IF p > GH_P_EMERGENCY
        THEN [a EXCEPT !.state.bofg_to_pp =
                           incremental_adjust(pp, "increase", 20, 0, 40000)]
        ELSE IF soc < GH_SOC_MIN
        THEN [a EXCEPT !.state.bofg_to_pp =
                           incremental_adjust(pp, "decrease", 20, 5000, inf)]
        ELSE IF soc > Soc(85) \/ p > Kpa(14)
        THEN [a EXCEPT !.state.bofg_to_pp =
                           incremental_adjust(pp, "increase", 10, 0, 40000)]
        ELSE IF soc < Soc(25) \/ p < Kpa(9)
        THEN [a EXCEPT !.state.bofg_to_pp =
                           incremental_adjust(pp, "decrease", 10, 5000, inf)]
        ELSE a

\* a variant of _control_cogh whose safety branches do not return: the
\* out-of-band correction runs on what they leave
GH_control_cogh_no_return(a, soc, p) ==
    LET set(b, x, y) == [b EXCEPT !.state.cog_to_heating = x, !.state.cog_to_bf = y]
        a1 == IF p > GH_P_EMERGENCY
              THEN set(a, incremental_adjust(a.state.cog_to_heating, "increase", 20, 0, 15000),
                       a.state.cog_to_bf)
              ELSE IF soc < GH_SOC_MIN
              THEN set(a, incremental_adjust(a.state.cog_to_heating, "decrease", 20, 2000, inf),
                       incremental_adjust(a.state.cog_to_bf, "decrease", 20, 1000, inf))
              ELSE a
        ht == a1.state.cog_to_heating
        tb == a1.state.cog_to_bf
    IN  IF soc > Soc(85) \/ p > Kpa(14)
        THEN set(a1, incremental_adjust(ht, "increase", 10, 0, 15000),
                 incremental_adjust(tb, "increase", 5, 0, 10000))
        ELSE IF soc < Soc(25) \/ p < Kpa(9)
        THEN set(a1, incremental_adjust(ht, "decrease", 10, 2000, inf),
                 incremental_adjust(tb, "decrease", 8, 1000, inf))
        ELSE a1

\* _control_cogh
GH_control_cogh(a, soc, p) ==
    LET ht == a.state.cog_to_heating
        tb == a.state.cog_to_bf
    IN  IF p > GH_P_EMERGENCY
        THEN [a EXCEPT !.state.cog_to_heating =
                           incremental_adjust(ht, "increase", 20, 0, 15000)]
        ELSE IF soc < GH_SOC_MIN
        THEN [a EXCEPT !.state.cog_to_heating =
                           incremental_adjust(ht, "decrease", 20, 2000, inf),
                       !.state.cog_to_bf =
                           incremental_adjust(tb, "decrease", 20, 1000, inf)]
        ELSE IF soc > Soc(85) \/ p > Kpa(14)
        THEN [a EXCEPT !.state.cog_to_heating =
                           incremental_adjust(ht, "increase", 10, 0, 15000),
                       !.state.cog_to_bf =
                           incremental_adjust(tb, "increase", 5, 0, 10000)]
        ELSE IF soc < Soc(25) \/ p < Kpa(9)
        THEN [a EXCEPT !.state.cog_to_heating =
                           incremental_adjust(ht, "decrease", 10, 2000, inf),
                       !.state.cog_to_bf =
                           incremental_adjust(tb, "decrease", 8, 1000, inf)]
        ELSE a

\* the surge-warning check of GasHolder_Agent.step: with a bus, the flag
\* is raised when get_messages(self.agent_id, BOFG_SURGE_WARNING) is not
\* empty
GH_surge_check(a, has_bus, messages) ==
    IF has_bus /\ get_messages(messages, a.agent_id, "bofg_surge_warning") # << >>
    THEN [a EXCEPT !.surge_warning_active = TRUE]
    ELSE a

\* GasHolder_Agent.step: the three holders in turn, then the flag is reset
GH_step(a, observations, has_bus, messages) ==
    LET soc_bfg  == obs_get(observations, "soc_bfg", Soc(50))
        p_bfg    == obs_get(observations, "p_bfg", Kpa(12))
        soc_bofg == obs_get(observations, "soc_bofg", Soc(50))
        p_bofg   == obs_get(observations, "p_bofg", Kpa(12))
        soc_cog  == obs_get(observations, "soc_cog", Soc(50))
        p_cog    == obs_get(observations, "p_cog", Kpa(12))
        a0 == GH_surge_check(a, has_bus, messages)
        a1 == GH_control_bfgh(a0, soc_bfg, p_bfg)
        a2 == GH_control_bofgh(a1, soc_bofg, p_bofg, a0.surge_warning_active)
        a3 == GH_control_cogh(a2, soc_cog, p_cog)
    IN  [a3 EXCEPT !.surge_warning_active = FALSE]

(***************************************************************************)
(* env/mas_sim_env.py: MAS_SimEnv                                          *)
(***************************************************************************)
\* round(n / d) for d > 0, the rounding of the twins' round(x, 2) at the
\* unit of the model
RoundDiv(n, d) == (2 * n + d) \div (2 * d)

(***************************************************************************)
(* Digital_Twin: the three unit twins, as far as the outputs the           *)
(* environment keeps.  Masses are in 0.01 t/h, the coke mass flow in       *)
(* 0.001 t/h, energies in whole MJ, gas flows in whole Nm^3/h.  A twin     *)
(* that divides by zero raises: its result then has raised set.            *)
(***************************************************************************)
\* BlastFurnaceTwin.__call__ on ore 50, pellets 100, sinter 100, power
\* 50000, calorific value 20 and the 50/20/20/10 gas distribution, which
\* is what the translator passes on every call
BlastFurnaceTwin(wind_volume, coke_mass_flow, coke_gas_flow) ==
    LET coke_required == 125000
        coke_used     == Min(coke_mass_flow, coke_required)
        \* 250 * (coke_used / coke_required), in 0.01 t/h
        pig_iron_coke == RoundDiv(2 * coke_used, 10)
        \* power_required = 90 * pig_iron - 5000 is below the power 50000
        \* that is supplied, so power_used / power_required is 1.0
        pig_iron_coke_power == pig_iron_coke
        \* 0.21 * wind_volume * 60 and 100 * pig_iron, in whole Nm^3/h
        oxygen          == (126 * wind_volume) \div 100
        oxygen_required == pig_iron_coke_power
        oxygen_used     == Min(oxygen, oxygen_required)
        energy_in       == coke_gas_flow * 20
        energy_required == pig_iron_coke_power * 10
        max_cog_by_wind == wind_volume * 30
        coke_gas_used   == Min(Min(energy_in, energy_required), max_cog_by_wind)
        \* the two ratios in 0.001
        oxygen_ratio    == (oxygen_used * 1000) \div oxygen_required
        cog_factor      == IF energy_required > 0
                           THEN (coke_gas_used * 1000) \div energy_required
                           ELSE 1000
        pig_iron        == (((pig_iron_coke * oxygen_ratio) \div 1000) * cog_factor) \div 1000
        \* wind * 0.3 + coke_gas_used * 0.001 + coke_used * 15, in 0.001
        heat_index      == 3 * wind_volume * 10 + coke_gas_used + 15 * coke_used
        \* 1450 + (heat - 5000) * 0.05, in whole degrees
        T_raw           == 1450 + RoundDiv(heat_index - 5000000, 20000)
        T_hot_metal     == Max(1400, Min(1550, T_raw))
        \* 0.5 - (T - 1500) * 0.002, in 0.001 %
        si_content      == Max(200, Min(800, 500 - 2 * (T_hot_metal - 1500)))
    IN  IF oxygen_required = 0
        THEN [raised |-> TRUE]
        ELSE [raised |-> FALSE,
              pig_iron_steelworks |-> pig_iron,
              bf_gas_total_flow   |-> (24 * wind_volume) \div 10 + 20000,
              t_hot_metal         |-> T_hot_metal,
              si_content          |-> si_content]

\* BOFTwin.__call__ on lime 5.0 and power 5000; oxygen is in 0.1 Nm^3/h
BOFTwin(pig_iron, scrap_steel, oxygen) ==
    LET steel_from_iron == RoundDiv((pig_iron + scrap_steel) * 95, 100)
        \* 50 * steel, in 0.1 Nm^3/h
        oxygen_required == 5 * steel_from_iron
        oxygen_used     == Min(oxygen, oxygen_required)
        steel_after_oxygen ==
            IF oxygen_required = 0 THEN 0
            ELSE (steel_from_iron * oxygen_used) \div oxygen_required
        \* 50 * steel / 1000 against the lime 5.0, in 0.01 t/h
        lime_required   == RoundDiv(5 * steel_after_oxygen, 100)
        lime_used       == Min(500, lime_required)
        steel_after_lime ==
            IF lime_required = 0 THEN 0
            ELSE (steel_after_oxygen * lime_used) \div lime_required
        \* 50 * steel against the power 5000, in 0.5 kWh/h
        power_required  == steel_after_lime
        power_used      == Min(10000, power_required)
        liquid_steel    ==
            IF power_required = 0 THEN 0
            ELSE (steel_after_lime * power_used) \div power_required
    IN  IF oxygen_required = 0 \/ lime_required = 0 \/ power_required = 0
        THEN [raised |-> TRUE]
        ELSE [raised |-> FALSE,
              liquid_steel |-> liquid_steel,
              \* 60 * liquid_steel
              bof_gas      |-> (3 * liquid_steel) \div 5]

\* CokeOvenTwin.__call__ on coal 100, calorific value 4.5, steam 2 and
\* power 3000: the steam (0.02 t per t of coal) and the power (30 kWh per
\* t of coal) never limit the 100 t/h of coal, the heating gas does
CokeOvenTwin(heating_gas) ==
    LET \* 100 * min(1.0, heating_gas * 4.5 / 150000), in 0.01 t/h
        coal_processed_heating == Min(10000, RoundDiv(3 * heating_gas, 10))
        steam_required == RoundDiv(2 * coal_processed_heating, 100)
        coal_processed_steam == IF steam_required > 0 THEN coal_processed_heating ELSE 0
        power_required == 30 * coal_processed_steam
        coal_processed == IF power_required > 0 THEN coal_processed_steam ELSE 0
    IN  [coke_production |-> RoundDiv(72 * coal_processed, 100),
         cog_production  |-> (33 * coal_processed) \div 10]

(***************************************************************************)
(* translators/twin_translator.py: TwinTranslator                          *)
(***************************************************************************)
\* bf_action_to_twin_input: the wind, pci / PCI_TO_COKE_FACTOR (1.5) in
\* 0.001 t/h, and the COG the environment reports
bf_action_to_twin_input(agent_action, env_state) ==
    [wind_volume    |-> obs_get(agent_action, "wind_volume", 40000),
     coke_mass_flow |-> (obs_get(agent_action, "PCI", 15000) * 20) \div 3,
     coke_gas_flow  |-> obs_get(env_state, "COG_available", 20000)]

\* bf_output_to_env_state
bf_output_to_env_state(bf_output) ==
    [pig_iron_production |-> bf_output.pig_iron_steelworks,
     bfg_supply          |-> bf_output.bf_gas_total_flow,
     T_hot_metal         |-> bf_output.t_hot_metal,
     Si                  |-> bf_output.si_content]

\* bof_action_to_twin_input: at most 80 t/h of the pig iron goes to the
\* converter
bof_action_to_twin_input(agent_action, env_state) ==
    [pig_iron    |-> Min(obs_get(env_state, "pig_iron_production", 20000), 8000),
     scrap_steel |-> obs_get(agent_action, "scrap_steel", 2000),
     oxygen      |-> obs_get(agent_action, "oxygen", 450000)]

\* bof_output_to_env_state
bof_output_to_env_state(bof_output) ==
    [liquid_steel |-> bof_output.liquid_steel,
     bofg_supply  |-> bof_output.bof_gas,
     T_steel      |-> 1650]

\* coke_oven_action_to_twin_input
coke_oven_action_to_twin_input(agent_action, env_state) ==
    [heating_gas |-> obs_get(agent_action, "heating_gas_input", 15000)]

\* coke_oven_output_to_env_state
coke_oven_output_to_env_state(co_output) ==
    [coke_production |-> co_output.coke_production,
     cog_supply      |-> co_output.cog_production,
     COG_available   |-> co_output.cog_production]

(***************************************************************************)
(* env/mas_sim_env.py: MAS_SimEnv                                          *)
(***************************************************************************)
\* dict.update: the entries of updates replace or extend those of state
dict_update(state, updates) == updates @@ state

\* MAS_SimEnv.__init__: time 0.0, the timestep of one minute and the state
\* the agents observe.  Gas flows are in whole Nm^3/h, productions in
\* 0.01 t/h.
MAS_SimEnvInit(use_twins) ==
    [use_twins |-> use_twins,
     time |-> 0,
     timestep |-> 1,
     state |-> [Si |-> 450, T_hot_metal |-> 1500, pig_iron_production |-> 20000,
                T_steel |-> 1650, liquid_steel |-> 9500,
                T_furnace |-> 1200, coke_production |-> 7200,
                soc_bfg |-> Soc(50), p_bfg |-> Kpa(12), bfg_supply |-> 100000,
                soc_bofg |-> Soc(50), p_bofg |-> Kpa(12), bofg_supply |-> 30000,
                soc_cog |-> Soc(50), p_cog |-> Kpa(12), cog_supply |-> 15000,
                COG_available |-> 15000, O2_available |-> 50000,
                peak_electricity |-> FALSE]]

\* GasNetworkState.to_dict
to_dict(st) ==
    [soc_bfg  |-> st.soc["bfg"],  p_bfg  |-> st.p["bfg"],
     soc_bofg |-> st.soc["bofg"], p_bofg |-> st.p["bofg"],
     soc_cog  |-> st.soc["cog"],  p_cog  |-> st.p["cog"]]

\* the gas production the environment hands to GasNetwork.update
gas_production_of(state) ==
    [bfg  |-> obs_get(state, "bfg_supply", 100000),
     bofg |-> obs_get(state, "bofg_supply", 30000),
     cog  |-> obs_get(state, "cog_supply", 15000)]

\* the three twins of _step_with_twins in turn, each on the state the
\* previous one left: the environment state before the gas network is
\* updated, or the state at the moment a twin raised
twins_state(state, bf_action, bof_action, co_action) ==
    LET bf_in  == bf_action_to_twin_input(bf_action, state)
        bf_out == BlastFurnaceTwin(bf_in.wind_volume, bf_in.coke_mass_flow,
                                   bf_in.coke_gas_flow)
        s1     == dict_update(state, bf_output_to_env_state(bf_out))
        bof_in == bof_action_to_twin_input(bof_action, s1)
        bof_out == BOFTwin(bof_in.pig_iron, bof_in.scrap_steel, bof_in.oxygen)
        s2     == dict_update(s1, bof_output_to_env_state(bof_out))
        co_in  == coke_oven_action_to_twin_input(co_action, s2)
        co_out == CokeOvenTwin(co_in.heating_gas)
    IN  IF bf_out.raised THEN [raised |-> TRUE, state |-> state]
        ELSE IF bof_out.raised THEN [raised |-> TRUE, state |-> s1]
        ELSE [raised |-> FALSE,
              state  |-> dict_update(s2, coke_oven_output_to_env_state(co_out))]

\* the production figures of _step_simple_dynamics: wind / 20 and
\* wind * 25
simple_state(state, bf_action) ==
    LET wind == obs_get(bf_action, "wind_volume", 40000)
    IN  dict_update(state, [pig_iron_production |-> wind \div 2,
                            bfg_supply |-> (5 * wind) \div 2])

\* np.clip(Si + noise, 0.3, 0.6) of _step_simple_dynamics
simple_Si(Si, noise) == np_clip(Si + noise, 300, 600)

\* MAS_SimEnv.reset on the environment's own fields
MAS_SimEnv_reset(e) ==
    [e EXCEPT !.time = 0,
              !.state = dict_update(e.state,
                  [soc_bfg |-> Soc(50), soc_bofg |-> Soc(50), soc_cog |-> Soc(50),
                   Si |-> 450, T_hot_metal |-> 1500, T_steel |-> 1650])]

(***************************************************************************)
(* The components at rest: the value each variable has in a specification *)
(* that does not exercise its component.                                   *)
(***************************************************************************)
BusIdle == /\ bus = MessageBusInit
           /\ busTime = 0
           /\ sentLog = << >>
           /\ ret = NoReturn
HyIdle == hy = [called |-> FALSE]
AlIdle == al = [phase |-> "idle"]
NetIdle == gn = [use_state_space_models |-> FALSE, state |-> GasNetworkBaseline]
AgentsIdle ==
    /\ bf = BF_AgentInit /\ bof = BOF_AgentInit
    /\ co = CokeOven_AgentInit /\ gh = GasHolder_AgentInit
LoopIdle == env = MAS_SimEnvInit(FALSE) /\ acts = << >> /\ pc = "idle"

(***************************************************************************)
(* SpecBus: any sequence of send(), get_messages() and clear() calls on a  *)
(* MessageBus.                                                             *)
(***************************************************************************)
MaxBus == 3

Receivers == {"GasHolderAgent", "GH1", "BF1", "all"}
Kinds == {"bofg_surge_warning", "gas_request"}
BusMessages == {Message(k, "BOFAgent", r, 0, << >>) : k \in Kinds, r \in Receivers}

BusSend(message) ==
    /\ Len(bus) < MaxBus
    /\ bus' = send(bus, message)
    /\ sentLog' = Append(sentLog, message)
    /\ ret' = NoReturn
    /\ UNCHANGED <<busTime, primVars, netVars, agentVars, loopVars, calls>>

BusGet(receiver, msg_type) ==
    /\ ret' = [call |-> "get_messages", receiver |-> receiver,
               msg_type |-> msg_type,
               value |-> get_messages(bus, receiver, msg_type)]
    /\ UNCHANGED <<bus, busTime, sentLog, primVars, netVars, agentVars, loopVars, calls>>

BusClear ==
    /\ bus' = clear(bus)
    /\ sentLog' = << >>
    /\ ret' = NoReturn
    /\ UNCHANGED <<busTime, primVars, netVars, agentVars, loopVars, calls>>

InitBus == BusIdle /\ HyIdle /\ AlIdle /\ NetIdle /\ AgentsIdle /\ LoopIdle /\ calls = 0

NextBus ==
    \/ \E message \in BusMessages : BusSend(message)
    \/ \E receiver \in Receivers \ {"all"}, msg_type \in Kinds \cup {None} :
            BusGet(receiver, msg_type)
    \/ BusClear

SpecBus == InitBus /\ [][NextBus]_vars

(***************************************************************************)
(* SpecHyst: a hysteresis flag fed back through successive                 *)
(* hysteresis_check calls on a sequence of measured values.                *)
(***************************************************************************)
HystSpan == 16

HystConfigs == {[target |-> 100, upper_band |-> 10, lower_band |-> 10],
                [target |-> 100, upper_band |-> 7,  lower_band |-> 10],
                [target |-> 50,  upper_band |-> 4,  lower_band |-> 12]}

\* the first call, with either value of the flag
HystFirst(cfg, value, state) ==
    /\ ~hy.called
    /\ LET r == hysteresis_check(value, cfg.target, cfg.upper_band,
                                 cfg.lower_band, state)
       IN  hy' = [called |-> TRUE, fedback |-> FALSE, cfg |-> cfg, value |-> value,
                  current_state |-> state, active |-> r[1], reason |-> r[2]]
    /\ UNCHANGED <<busVars, al, netVars, agentVars, loopVars, calls>>

\* a later call: the flag returned by the previous call is passed back in
HystNext ==
    /\ hy.called
    /\ \E value \in (hy.cfg.target - HystSpan)..(hy.cfg.target + HystSpan) :
         LET r == hysteresis_check(value, hy.cfg.target, hy.cfg.upper_band,
                                   hy.cfg.lower_band, hy.active)
         IN  hy' = [hy EXCEPT !.fedback = TRUE, !.value = value,
                              !.current_state = hy.active,
                              !.active = r[1], !.reason = r[2]]
    /\ UNCHANGED <<busVars, al, netVars, agentVars, loopVars, calls>>

InitHyst == BusIdle /\ HyIdle /\ AlIdle /\ NetIdle /\ AgentsIdle /\ LoopIdle /\ calls = 0

NextHyst ==
    \/ \E cfg \in HystConfigs, state \in BOOLEAN :
          \E value \in (cfg.target - HystSpan)..(cfg.target + HystSpan) :
            HystFirst(cfg, value, state)
    \/ HystNext

SpecHyst == InitHyst /\ [][NextHyst]_vars

(***************************************************************************)
(* SpecAlloc: one priority_allocate call on arguments drawn from bounded   *)
(* sets: a non-negative available amount, non-negative demands of up to    *)
(* three consumers in any key order, and priorities for any subset of the  *)
(* consumers.                                                              *)
(***************************************************************************)
MaxPriority == 2

Consumers == {"A", "B", "C"}
Amounts == {0, 30, 60}
Availables == {0, 50, 100, 200}

\* the orders in which the keys of a demands dict can have been inserted
KeyOrders == {keys \in UNION {[1..n -> Consumers] : n \in 0..Cardinality(Consumers)} :
                \A i, j \in 1..Len(keys) : i # j => keys[i] # keys[j]}

Range(f) == {f[x] : x \in DOMAIN f}

AllocArgs ==
    {[phase |-> "args", available |-> available, keys |-> keys,
      demands |-> demands, priorities |-> priorities] :
        available \in Availables,
        keys \in KeyOrders,
        demands \in UNION {[K -> Amounts] : K \in SUBSET Consumers},
        priorities \in UNION {[K -> 0..MaxPriority] : K \in SUBSET Consumers}}

InitAlloc ==
    /\ BusIdle /\ HyIdle /\ NetIdle /\ AgentsIdle /\ LoopIdle /\ calls = 0
    /\ al \in {a \in AllocArgs : DOMAIN a.demands = Range(a.keys)}

PriorityAllocate ==
    /\ al.phase = "args"
    /\ al' = [phase |-> "done", available |-> al.available, keys |-> al.keys,
              demands |-> al.demands, priorities |-> al.priorities,
              allocation |-> priority_allocate(al.available, al.keys,
                                               al.demands, al.priorities)]
    /\ UNCHANGED <<busVars, hy, netVars, agentVars, loopVars, calls>>

NextAlloc == PriorityAllocate

SpecAlloc == InitAlloc /\ [][NextAlloc]_vars

(***************************************************************************)
(* SpecNet: a GasNetwork, constructed with or without state-space models,  *)
(* under any sequence of update() and reset() calls.                       *)
(***************************************************************************)
MaxUpdates == 2

\* production dicts: the nominal rates, a partial dict with a BFG surge
\* (the absent types produce 0.0), a BOFG and COG surge
Productions ==
    { [bfg |-> 100000, bofg |-> 30000, cog |-> 15000],
      [bfg |-> 12000000],
      [bfg |-> 100000, bofg |-> 5000000, cog |-> 3000000] }

\* demand dicts: empty, the two-consumer example, the gas holder agent's
\* initial outflows, a drain with an upper-case label, labels with two tags
\* and with none
Demands ==
    { << >>,
      [bfg_to_pp |-> 50000, bfg_to_heating |-> 30000],
      [bfg_to_pp |-> 50000, bfg_to_heating |-> 30000, bofg_to_pp |-> 20000,
       bofg_to_heating |-> 10000, cog_to_heating |-> 8000, cog_to_bf |-> 5000],
      [bfg_to_pp |-> 50000, BOFG_to_pp |-> 6000000, cog_to_heating |-> 4000000],
      [cog_to_bfg_mix |-> 7000, pp_demand |-> 70000] }

Timesteps == {1, 2}

NetUpdate ==
    /\ calls < MaxUpdates
    /\ calls' = calls + 1
    /\ \E gas_production \in Productions, gas_demands \in Demands,
          timestep \in Timesteps :
          \E outcomes \in [Gas -> IF gn.use_state_space_models
                                  THEN ModelOutcomes ELSE {"none"}] :
            /\ gn' = [gn EXCEPT !.state = update(gn.state, gn.use_state_space_models,
                                                 gas_production, gas_demands,
                                                 timestep, outcomes)]
            /\ ret' = [call |-> "GasNetwork.update",
                       gas_production |-> gas_production,
                       gas_demands |-> gas_demands,
                       timestep |-> timestep, outcomes |-> outcomes]
    /\ UNCHANGED <<bus, busTime, sentLog, primVars, agentVars, loopVars>>

NetReset ==
    /\ gn' = [gn EXCEPT !.state = GasNetworkBaseline]
    /\ ret' = [call |-> "GasNetwork.reset"]
    /\ UNCHANGED <<bus, busTime, sentLog, primVars, agentVars, loopVars, calls>>

InitNet ==
    /\ BusIdle /\ HyIdle /\ AlIdle /\ AgentsIdle /\ LoopIdle /\ calls = 0
    /\ \E use \in BOOLEAN :
          gn = [use_state_space_models |-> use, state |-> GasNetworkBaseline]

NextNet == NetUpdate \/ NetReset

SpecNet == InitNet /\ [][NextNet]_vars

(***************************************************************************)
(* SpecAgents: a driver steps one agent, the blast furnace agent or the    *)
(* converter agent, any number of times with observations of its choice.   *)
(* The two agents share no state, so the runs of each alone cover every    *)
(* state either can reach.                                                  *)
(***************************************************************************)
MaxBFSteps == 7
MaxBOFSteps == 10

\* observation dictionaries for BF_Agent.step; an absent key takes its
\* default
BFObservations ==
    { << >>,
      [SOC_bfg |-> Soc(90)],
      [P_bfg |-> Kpa(15), peak_electricity |-> TRUE],
      [Si |-> 400, SOC_bfg |-> Soc(20), P_bfg |-> Kpa(8)],
      [Si |-> 850, T_hot_metal |-> 1650],
      [Si |-> 470, COG_available |-> 5000, O2_available |-> 100] }

\* observation dictionaries for BOF_Agent.step
BOFObservations ==
    { << >>,
      [T_steel |-> 1680],
      [T_steel |-> 1600],
      [P_bof_gas |-> Kpa(16), bof_gas_current |-> 70000, P_bofg |-> Kpa(15)] }

BFStep ==
    /\ pc = "BF_Agent"
    /\ calls < MaxBFSteps
    /\ \E observations \in BFObservations :
         /\ bf' = BF_step(bf, observations)
         /\ ret' = [call |-> "BF_Agent.step", value |-> bf'.state]
    /\ calls' = calls + 1
    /\ UNCHANGED <<bus, busTime, sentLog, primVars, netVars, bof, co, gh, loopVars>>

BOFStep ==
    /\ pc = "BOF_Agent"
    /\ calls < MaxBOFSteps
    /\ \E observations \in BOFObservations, has_bus \in BOOLEAN :
         LET sent == BOF_step_sends(bof, observations, has_bus, busTime)
         IN  /\ bof' = BOF_step(bof, observations)
             /\ bus' = bus \o sent
             /\ sentLog' = sentLog \o sent
             /\ ret' = [call |-> "BOF_Agent.step", value |-> bof'.state]
    /\ calls' = calls + 1
    /\ UNCHANGED <<busTime, primVars, netVars, bf, co, gh, loopVars>>

InitAgents ==
    /\ BusIdle /\ HyIdle /\ AlIdle /\ NetIdle /\ AgentsIdle /\ calls = 0
    /\ env = MAS_SimEnvInit(FALSE) /\ acts = << >>
    /\ pc \in {"BF_Agent", "BOF_Agent"}

NextAgents == BFStep \/ BOFStep

SpecAgents == InitAgents /\ [][NextAgents]_vars

(***************************************************************************)
(* main.py: demonstrate_scenarios.  An environment without twins is reset, *)
(* the observation it returns is given a forced BFG state of charge and    *)
(* pressure, and the blast furnace agent and the gas-holder agent are      *)
(* stepped once on it.  The program forces 0.90 and 15.0; here the forced  *)
(* pair ranges over values inside and above the bands.  ret keeps obs.     *)
(***************************************************************************)
ScenarioSocs == {Soc(50), Soc(80), Soc(85), Soc(86), Soc(90), Soc(92), Soc(95)}

ScenarioPressures == {Kpa(12), Kpa(13), Kpa(14), Kpa10(141), Kpa(15), Kpa10(156)}

\* obs = env.reset(); obs["soc_bfg"] = ...; obs["p_bfg"] = ...
ScenarioReset ==
    /\ pc = "scenario_reset"
    /\ env' = MAS_SimEnv_reset(env)
    /\ bus' = clear(bus)
    /\ gn' = [gn EXCEPT !.state = GasNetworkBaseline]
    /\ \E soc_bfg \in ScenarioSocs, p_bfg \in ScenarioPressures :
         ret' = [call |-> "MAS_SimEnv.reset",
                 value |-> dict_update(env'.state,
                                       [soc_bfg |-> soc_bfg, p_bfg |-> p_bfg])]
    /\ pc' = "scenario_bf"
    /\ UNCHANGED <<busTime, sentLog, primVars, agentVars, acts, calls>>

\* bf_action = bf_agent.step(obs)
ScenarioBF ==
    /\ pc = "scenario_bf"
    /\ bf' = BF_step(bf, ret.value)
    /\ acts' = [BF |-> bf'.state] @@ acts
    /\ pc' = "scenario_gh"
    /\ UNCHANGED <<busVars, primVars, netVars, bof, co, gh, env, calls>>

\* gh_action = gh_agent.step(obs)
ScenarioGH ==
    /\ pc = "scenario_gh"
    /\ gh' = GH_step(gh, ret.value, FALSE, bus)
    /\ acts' = [GasHolder |-> gh'.state] @@ acts
    /\ pc' = "scenario_done"
    /\ UNCHANGED <<busVars, primVars, netVars, bf, bof, co, env, calls>>

InitScenario ==
    /\ BusIdle /\ HyIdle /\ AlIdle /\ AgentsIdle /\ calls = 0
    /\ env = MAS_SimEnvInit(FALSE)
    /\ gn = [use_state_space_models |-> FALSE, state |-> GasNetworkBaseline]
    /\ acts = << >>
    /\ pc = "scenario_reset"

NextScenario == ScenarioReset \/ ScenarioBF \/ ScenarioGH

SpecScenario == InitScenario /\ [][NextScenario]_vars

(***************************************************************************)
(* incremental_adjust in sequence: the first call is made on any starting  *)
(* value with any bounds min_val <= max_val, every later call on the       *)
(* previous result with the same bounds, each with any step fraction and   *)
(* direction.  ret keeps the arguments and the result of the last call.    *)
(***************************************************************************)
MaxAdjusts == 4

AdjustValues == {-500, 0, 7, 150, 1000}

AdjustLimits == {-100, 0, 10, 100, 200}

\* step_size in hundredths: 0.0, 0.05, 0.2, 1.0 and 1.5
AdjustSteps == {0, 5, 20, 100, 150}

AdjustDirections == {"increase", "decrease", "hold"}

Adjust ==
    /\ pc = "adjust"
    /\ calls < MaxAdjusts
    /\ \E direction \in AdjustDirections, step_size \in AdjustSteps,
          current_value \in (IF calls = 0 THEN AdjustValues ELSE {ret.value}),
          min_val \in (IF calls = 0 THEN AdjustLimits ELSE {ret.min_val}),
          max_val \in (IF calls = 0 THEN AdjustLimits ELSE {ret.max_val}) :
         /\ min_val <= max_val
         /\ ret' = [call |-> "incremental_adjust", current_value |-> current_value,
                    direction |-> direction, step_size |-> step_size,
                    min_val |-> min_val, max_val |-> max_val,
                    value |-> incremental_adjust(current_value, direction,
                                                 step_size, min_val, max_val)]
    /\ calls' = calls + 1
    /\ UNCHANGED <<bus, busTime, sentLog, primVars, netVars, agentVars, loopVars>>

InitAdjust ==
    /\ BusIdle /\ HyIdle /\ AlIdle /\ NetIdle /\ AgentsIdle /\ calls = 0
    /\ env = MAS_SimEnvInit(FALSE) /\ acts = << >>
    /\ pc = "adjust"

NextAdjust == Adjust

SpecAdjust == InitAdjust /\ [][NextAdjust]_vars

(***************************************************************************)
(* models/reward_calculation.py: the stability score of calculate_reward.  *)
(* States of charge and scores are in units of 1 / SOC_ONE, and the        *)
(* arithmetic is exact: the rounding of the doubles is not modelled.       *)
(***************************************************************************)
\* a variant of the penalty that only looks at under-fill
soc_penalty_underfill_only(soc) ==
    IF soc < Soc(25) THEN Soc(25) - soc ELSE 0

\* a variant of the penalty that is the same for every state of charge
\* outside the band
soc_penalty_flat(soc) ==
    IF soc < Soc(25) \/ soc > Soc(85) THEN Soc(10) ELSE 0

\* the entry of soc_penalties for one state of charge; a state of charge
\* inside [0.25, 0.85] appends nothing, which adds 0 to the sum
soc_penalty(soc) ==
    IF soc < Soc(25) THEN Soc(25) - soc
    ELSE IF soc > Soc(85) THEN soc - Soc(85)
    ELSE 0

\* stability_score = max(0.0, 1.0 - total_soc_penalty * 2.0)
stability_score(soc_bfg, soc_bofg, soc_cog) ==
    LET total_soc_penalty == soc_penalty(soc_bfg) + soc_penalty(soc_bofg)
                             + soc_penalty(soc_cog)
    IN  Max(0, SOC_ONE - total_soc_penalty * 2)

\* calculate_reward(state, action, next_state), as far as the stability
\* score and the states of charge of the breakdown
calculate_reward(next_state) ==
    [stability_score |-> stability_score(next_state.soc_bfg, next_state.soc_bofg,
                                         next_state.soc_cog),
     breakdown |-> [soc_bfg |-> next_state.soc_bfg,
                    soc_bofg |-> next_state.soc_bofg,
                    soc_cog |-> next_state.soc_cog]]

\* the states of charge of next_state.gas_holder: the two ends of the
\* scale, the limits of the gas network, the two band limits with the
\* values next to them on either side, and values in between
RewardSocs ==
    { Soc(0), Soc(5), Soc(10), Soc(15), Soc(24), Soc(25) - 1, Soc(25),
      Soc(25) + 1, Soc(50), Soc(85) - 1, Soc(85), Soc(85) + 1, Soc(86),
      Soc(90), Soc(95), Soc(100) }

\* one call per behaviour: the function keeps no state between calls
RewardCall ==
    /\ pc = "reward"
    /\ \E soc_bfg \in RewardSocs, soc_bofg \in RewardSocs, soc_cog \in RewardSocs :
         LET next_state == [soc_bfg |-> soc_bfg, soc_bofg |-> soc_bofg,
                            soc_cog |-> soc_cog]
         IN  ret' = [call |-> "calculate_reward", next_state |-> next_state,
                     value |-> calculate_reward(next_state)]
    /\ pc' = "scored"
    /\ UNCHANGED <<bus, busTime, sentLog, primVars, netVars, agentVars, env, acts, calls>>

InitReward ==
    /\ BusIdle /\ HyIdle /\ AlIdle /\ NetIdle /\ AgentsIdle /\ calls = 0
    /\ env = MAS_SimEnvInit(FALSE) /\ acts = << >>
    /\ pc = "reward"

NextReward == RewardCall

SpecReward == InitReward /\ [][NextReward]_vars

(***************************************************************************)
(* The gas-holder agent alone: GasHolder_Agent.step is called repeatedly   *)
(* on one agent, built with the default id or with the id the surge        *)
(* warning is addressed to, on observations that put each holder in each   *)
(* range of its cascade, without a bus or with a bus that holds nothing or *)
(* one surge warning.  ret keeps the arguments of the last call.           *)
(***************************************************************************)
MaxHolderSteps == 4

\* observation dictionaries for GasHolder_Agent.step; an absent key takes
\* its default (SOC 0.5, pressure 12.0)
HolderObservations ==
    { << >>,
      [soc_bfg |-> Soc(92), p_bfg |-> Kpa10(152)],
      [soc_bfg |-> Soc(50), p_bfg |-> Kpa(17), soc_bofg |-> Soc(90),
       soc_cog |-> Soc(20)],
      [soc_bfg |-> Soc(3), soc_bofg |-> Soc(50), p_bofg |-> Kpa(17),
       soc_cog |-> Soc(90)],
      [soc_bfg |-> Soc(20), p_bfg |-> Kpa(8), soc_bofg |-> Soc(3),
       p_cog |-> Kpa(17)],
      [soc_bfg |-> Soc(3), p_bfg |-> Kpa(17), soc_bofg |-> Soc(2),
       p_bofg |-> Kpa(15), soc_cog |-> Soc(3)],
      [soc_bfg |-> Soc(80), soc_bofg |-> Soc(20), p_cog |-> Kpa(15)],
      [soc_bfg |-> Soc(90), p_bfg |-> Kpa(8)] }

\* what the bus passed to the step holds
HolderMessages ==
    { << >>, <<BOFGSurgeWarning(2, 60000, 18, Soc(50), 0)>> }

HolderStep ==
    /\ pc = "holder"
    /\ calls < MaxHolderSteps
    /\ \E observations \in HolderObservations, has_bus \in BOOLEAN,
          messages \in HolderMessages :
         /\ (~has_bus) => messages = << >>
         /\ bus' = messages
         /\ gh' = GH_step(gh, observations, has_bus, messages)
         /\ ret' = [call |-> "GasHolder_Agent.step", value |-> gh'.state,
                    observations |-> observations, message_bus |-> has_bus]
    /\ calls' = calls + 1
    /\ UNCHANGED <<busTime, sentLog, primVars, netVars, bf, bof, co, loopVars>>

InitHolder ==
    /\ BusIdle /\ HyIdle /\ AlIdle /\ NetIdle /\ calls = 0
    /\ bf = BF_AgentInit /\ bof = BOF_AgentInit /\ co = CokeOven_AgentInit
    /\ \E agent_id \in {"GH1", "GasHolderAgent"} :
         gh = [GasHolder_AgentInit EXCEPT !.agent_id = agent_id]
    /\ env = MAS_SimEnvInit(FALSE) /\ acts = << >>
    /\ pc = "holder"

NextHolder == HolderStep

SpecHolder == InitHolder /\ [][NextHolder]_vars

(***************************************************************************)
(* The converter agent over a whole countdown: BOF_Agent.step is called    *)
(* repeatedly on one agent, with or without a bus, from the constructor's  *)
(* countdown of 30 down to 0 and beyond.  ret keeps the arguments of the   *)
(* last call.                                                              *)
(***************************************************************************)
MaxBlowSteps == 31

\* observation dictionaries for the countdown: the holder's state of
\* charge as the agent reads it, and a cold heat
BlowObservations ==
    { << >>,
      [SOC_bofg |-> Soc(70)],
      [T_steel |-> 1600, SOC_bofg |-> Soc(30)] }

BlowStep ==
    /\ pc = "blow"
    /\ calls < MaxBlowSteps
    /\ \E observations \in BlowObservations, has_bus \in BOOLEAN :
         LET sent == BOF_step_sends(bof, observations, has_bus, busTime)
         IN  /\ bof' = BOF_step(bof, observations)
             /\ bus' = bus \o sent
             /\ sentLog' = sentLog \o sent
             /\ ret' = [call |-> "BOF_Agent.step", value |-> bof'.state,
                        observations |-> observations, message_bus |-> has_bus]
    /\ calls' = calls + 1
    /\ UNCHANGED <<busTime, primVars, netVars, bf, co, gh, loopVars>>

InitBlow ==
    /\ BusIdle /\ HyIdle /\ AlIdle /\ NetIdle /\ AgentsIdle /\ calls = 0
    /\ env = MAS_SimEnvInit(FALSE) /\ acts = << >>
    /\ pc = "blow"

NextBlow == BlowStep

SpecBlow == InitBlow /\ [][NextBlow]_vars

(***************************************************************************)
(* SpecLoop: main.py, run_mas_simulation.  The environment and the four    *)
(* agents are constructed, the environment is reset, and every tick clears *)
(* the bus, steps the four agents on the observation of the previous tick  *)
(* and steps the environment.  The agents are stepped without a message    *)
(* bus.  calls counts the completed ticks.                                 *)
(***************************************************************************)
MaxTicks == 3
\* with the twins a run is deterministic up to the levels the holder models
\* report, and is followed further: past the tick in which the converter
\* agent's countdown (30 at construction) comes within its warning horizon
MaxTwinTicks == 29

\* num_steps
num_steps(e) == IF e.use_twins THEN MaxTwinTicks ELSE MaxTicks

\* np.random.normal(0, 0.01), in 0.001 %
SiNoise == {-20, 0, 20}

\* obs: env.reset() and env.step() return a copy of the environment state,
\* which does not change while the agents are stepped
obs == env.state

\* obs = env.reset(): before the first tick, and between two of the first
\* MaxTicks ticks once the environment has been stepped
LoopReset ==
    /\ pc = "reset" \/ (pc = "clear" /\ env.time > 0 /\ calls <= MaxTicks)
    /\ env' = MAS_SimEnv_reset(env)
    /\ bus' = clear(bus)
    /\ sentLog' = << >>
    /\ gn' = [gn EXCEPT !.state = GasNetworkBaseline]
    /\ pc' = "clear"
    /\ UNCHANGED <<busTime, ret, primVars, agentVars, acts, calls>>

\* a variant of the head of the tick that advances the time and the bus
\* clock before it clears the bus
LoopClear_time_first ==
    /\ pc = "clear"
    /\ calls < num_steps(env)
    /\ env' = [env EXCEPT !.time = env.time + env.timestep]
    /\ busTime' = env'.time
    /\ bus' = clear(bus)
    /\ sentLog' = << >>
    /\ pc' = "bf"
    /\ UNCHANGED <<ret, primVars, netVars, agentVars, acts, calls>>

\* env.get_message_bus().clear(), for step in range(num_steps)
LoopClear ==
    /\ pc = "clear"
    /\ calls < num_steps(env)
    /\ bus' = clear(bus)
    /\ sentLog' = << >>
    /\ pc' = "bf"
    /\ UNCHANGED <<busTime, ret, primVars, netVars, agentVars, env, acts, calls>>

\* bf_action = bf_agent.step(obs)
LoopBF ==
    /\ pc = "bf"
    /\ bf' = BF_step(bf, obs)
    /\ acts' = [BF |-> bf'.state] @@ acts
    /\ pc' = "bof"
    /\ UNCHANGED <<busVars, primVars, netVars, bof, co, gh, env, calls>>

\* bof_action = bof_agent.step(obs): message_bus is None
LoopBOF ==
    /\ pc = "bof"
    /\ LET sent == BOF_step_sends(bof, obs, FALSE, busTime)
       IN  /\ bus' = bus \o sent
           /\ sentLog' = sentLog \o sent
    /\ bof' = BOF_step(bof, obs)
    /\ acts' = [BOF |-> bof'.state] @@ acts
    /\ pc' = "co"
    /\ UNCHANGED <<busTime, ret, primVars, netVars, bf, co, gh, env, calls>>

\* co_action = co_agent.step(obs)
LoopCO ==
    /\ pc = "co"
    /\ co' = CO_step(co, obs)
    /\ acts' = [CokeOven |-> co'.state] @@ acts
    /\ pc' = "gh"
    /\ UNCHANGED <<busVars, primVars, netVars, bf, bof, gh, env, calls>>

\* gh_action = gh_agent.step(obs): message_bus is None
LoopGH ==
    /\ pc = "gh"
    /\ gh' = GH_step(gh, obs, FALSE, bus)
    /\ acts' = [GasHolder |-> gh'.state] @@ acts
    /\ pc' = "env"
    /\ UNCHANGED <<busVars, primVars, netVars, bf, bof, co, env, calls>>

\* obs = env.step(actions): the time and the bus clock advance, then the
\* twins or the simple dynamics, then the gas network; a twin that raises
\* ends the run
LoopEnvStep ==
    /\ pc = "env"
    /\ busTime' = env.time + env.timestep
    /\ \E outcomes \in [Gas -> ModelOutcomes], noise \in SiNoise :
         LET time == env.time + env.timestep
             tw   == twins_state(env.state, acts.BF, acts.BOF, acts.CokeOven)
             s1   == IF env.use_twins THEN tw.state
                     ELSE simple_state(env.state, acts.BF)
             raised == env.use_twins /\ tw.raised
             net  == update(gn.state, gn.use_state_space_models,
                            gas_production_of(s1), acts.GasHolder,
                            env.timestep, outcomes)
             s2   == dict_update(s1, to_dict(net))
             s3   == IF env.use_twins THEN s2
                     ELSE [s2 EXCEPT !.Si = simple_Si(s2.Si, noise)]
         IN  /\ env.use_twins => noise = 0
             /\ ~gn.use_state_space_models => outcomes = [g \in Gas |-> "level"]
             /\ IF raised
                THEN /\ env' = [env EXCEPT !.time = time, !.state = s1]
                     /\ gn' = gn
                     /\ pc' = "raised"
                     /\ calls' = calls
                ELSE /\ env' = [env EXCEPT !.time = time, !.state = s3]
                     /\ gn' = [gn EXCEPT !.state = net]
                     /\ pc' = "clear"
                     /\ calls' = calls + 1
    /\ UNCHANGED <<bus, sentLog, ret, primVars, agentVars, acts>>

\* the environment owns the bus; when the twins fail to initialize,
\* use_twins falls back to False after the gas network was constructed
InitLoop ==
    /\ BusIdle /\ HyIdle /\ AlIdle /\ AgentsIdle /\ calls = 0
    /\ \E use_twins \in BOOLEAN, use_models \in BOOLEAN :
         /\ use_twins => use_models
         /\ env = MAS_SimEnvInit(use_twins)
         /\ gn = [use_state_space_models |-> use_models, state |-> GasNetworkBaseline]
    /\ acts = << >>
    /\ pc = "reset"

NextLoop ==
    \/ LoopReset
    \/ LoopClear
    \/ LoopBF
    \/ LoopBOF
    \/ LoopCO
    \/ LoopGH
    \/ LoopEnvStep

SpecLoop == InitLoop /\ [][NextLoop]_vars

(***************************************************************************)
(* Claims on the control primitives and the message bus                    *)
(***************************************************************************)
\* value lies in the closed inner half band [target - lower/2, target + upper/2]
InInnerHalfBand(value, cfg) ==
    /\ 2 * cfg.target - cfg.lower_band <= 2 * value
    /\ 2 * value <= 2 * cfg.target + cfg.upper_band

\* C7: hysteresis_check returns active exactly when the value is above
\* target+upperBand, or below target-lowerBand, or the flag is currently
\* active and the value lies in [target-lowerBand/2, target+upperBand/2];
\* in every other case it returns inactive.
C7_HysteresisTable ==
    hy.called =>
        hy.active = ( \/ hy.value > hy.cfg.target + hy.cfg.upper_band
                      \/ hy.value < hy.cfg.target - hy.cfg.lower_band
                      \/ hy.current_state /\ InInnerHalfBand(hy.value, hy.cfg) )

\* the spec's example: target 100, bands 10, active at 112, then 103: stays active
C7_Witness ==
    /\ hy.called /\ hy.fedback
    /\ hy.cfg = [target |-> 100, upper_band |-> 10, lower_band |-> 10]
    /\ hy.current_state /\ hy.value = 103
    /\ hy.active /\ hy.reason = "within_hysteresis"

\* C8 (as claimed): a flag that was set and is fed back stays set on every
\* call whose value is still outside the inner half band; it is cleared only
\* by a value inside the inner half band.
C8_FlagHeldUntilInnerBand ==
    (hy.called /\ hy.fedback /\ hy.current_state
        /\ ~InInnerHalfBand(hy.value, hy.cfg))
    => hy.active

\* the j-th smallest element of a finite set of integers
NthOf(S, j) == CHOOSE i \in S : Cardinality({x \in S : x <= i}) = j

Matches(msg, receiver, msg_type) ==
    /\ msg.receiver = receiver \/ msg.receiver = "all"
    /\ msg_type = None \/ msg.msg_type = msg_type

\* C9: get_messages(receiver, kind) returns, in send order, exactly the
\* messages sent since the last clear() that are addressed to the receiver or
\* to "all" and, when a kind is given, are of that kind; it returns no message
\* addressed to another agent, and the bus holds exactly the messages sent
\* since the last clear() (get_messages does not modify it).
C9_GetMessages ==
    /\ bus = sentLog
    /\ ret.call = "get_messages" =>
         LET idx == {i \in 1..Len(sentLog) :
                        Matches(sentLog[i], ret.receiver, ret.msg_type)}
         IN  /\ Len(ret.value) = Cardinality(idx)
             /\ \A j \in 1..Len(ret.value) : ret.value[j] = sentLog[NthOf(idx, j)]
             /\ \A j \in 1..Len(ret.value) :
                    ret.value[j].receiver \in {ret.receiver, "all"}

\* a filtered read that keeps a broadcast and a direct message, in send
\* order, and drops a message of another agent and one of another kind
C9_Witness ==
    /\ ret.call = "get_messages" /\ ret.msg_type = "gas_request"
    /\ Len(bus) = 3 /\ Len(ret.value) = 2
    /\ ret.value[1].receiver = "all" /\ ret.value[2].receiver = ret.receiver
    /\ \E i \in 1..3 : bus[i].receiver \notin {ret.receiver, "all"}
                          \/ bus[i].msg_type # "gas_request"

RECURSIVE SumOver(_, _)
SumOver(f, S) == IF S = {} THEN 0
                 ELSE LET x == CHOOSE y \in S : TRUE
                      IN  f[x] + SumOver(f, S \ {x})

\* C4: for a non-negative available amount and non-negative demands the
\* allocation has exactly the keys of demands, each consumer gets between 0
\* and its demand, and the allocations sum to at most available.
C4_AllocationBounded ==
    al.phase = "done" =>
        /\ DOMAIN al.allocation = DOMAIN al.demands
        /\ \A c \in DOMAIN al.demands :
              0 <= al.allocation[c] /\ al.allocation[c] <= al.demands[c]
        /\ SumOver(al.allocation, DOMAIN al.allocation) <= al.available

\* the demands exceed what is available and the allocation uses all of it
C4_Witness ==
    /\ al.phase = "done" /\ Len(al.keys) = 3
    /\ SumOver(al.demands, DOMAIN al.demands) > al.available
    /\ al.available > 0
    /\ SumOver(al.allocation, DOMAIN al.allocation) = al.available

\* C5: if a consumer receives less than its demand, every consumer of
\* strictly lower priority (an absent priority counting as 0) receives 0.
C5_HigherPriorityFirst ==
    al.phase = "done" =>
        \A c, d \in DOMAIN al.demands :
            ( /\ al.allocation[c] < al.demands[c]
              /\ prio_get(al.priorities, d) < prio_get(al.priorities, c) )
            => al.allocation[d] = 0

\* the spec's example up to the amounts of the model: the consumer of
\* higher priority is filled first although its key comes second, and the
\* one of lower priority gets what is left
C5_Witness ==
    /\ al.phase = "done" /\ al.available = 100
    /\ al.keys = <<"B", "A">>
    /\ al.demands = [A |-> 60, B |-> 60]
    /\ al.priorities = [A |-> 2, B |-> 1]
    /\ al.allocation = [A |-> 60, B |-> 40]

\* C6 (as claimed): a consumer whose priority is 0 or that is absent from
\* priorities is allocated 0, whatever remains available.
C6_ZeroPriorityGetsNothing ==
    al.phase = "done" =>
        \A c \in DOMAIN al.demands :
            (c \notin DOMAIN al.priorities \/ al.priorities[c] = 0)
            => al.allocation[c] = 0

\* the demands of the consumers ranked strictly above priority 0
DemandAboveZero(a) ==
    SumOver(a.demands, {d \in DOMAIN a.demands : prio_get(a.priorities, d) > 0})

\* C6 (amended): a consumer whose priority is 0 or that is absent from
\* priorities is ranked at priority 0: it is allocated at most what the
\* consumers of strictly higher priority leave, so 0 once their demands use
\* up the available amount, and when it is the only consumer at that rank
\* it is allocated min(demand, what they leave).
C6_ZeroPriorityServedLast ==
    al.phase = "done" =>
        \A c \in DOMAIN al.demands :
            prio_get(al.priorities, c) = 0 =>
                LET left == Max(0, al.available - DemandAboveZero(al))
                IN  /\ al.allocation[c] <= left
                    /\ (\A d \in DOMAIN al.demands \ {c} :
                            prio_get(al.priorities, d) # 0)
                        => al.allocation[c] = Min(al.demands[c], left)

\* an absent consumer and a consumer of priority 0 both receive something
C6_Witness ==
    /\ al.phase = "done"
    /\ al.demands = [A |-> 60, B |-> 30, C |-> 30]
    /\ al.priorities = [A |-> 1, B |-> 0]
    /\ al.keys = <<"C", "B", "A">>
    /\ al.available = 100
    /\ al.allocation = [A |-> 60, B |-> 10, C |-> 30]

(***************************************************************************)
(* Claims on the gas network                                               *)
(***************************************************************************)
\* C1: in every state of the GasNetwork reachable by update() and reset()
\* calls, each of soc_bfg, soc_bofg and soc_cog lies in [0.05, 0.95].
C1_SocWithinLimits ==
    \A g \in Gas : Soc(5) <= gn.state.soc[g] /\ gn.state.soc[g] <= Soc(95)

\* one holder clipped at the top, one at the bottom, one strictly inside
\* and off the baseline
C1_Witness ==
    /\ calls > 0
    /\ \E g \in Gas : gn.state.soc[g] = Soc(95)
    /\ \E g \in Gas : gn.state.soc[g] = Soc(5)
    /\ \E g \in Gas : /\ Soc(5) < gn.state.soc[g] /\ gn.state.soc[g] < Soc(95)
                        /\ gn.state.soc[g] # Soc(50)

\* C2: in every reachable state the stored pressure of each gas type is
\* p_min + soc * p_range = 8.0 + 8.0 * soc of the stored state of charge.
C2_PressureAffine ==
    \A g \in Gas : gn.state.p[g] = Kpa(8) + 8 * gn.state.soc[g]

\* after an update that moved a holder off the baseline, and after a reset
\* that followed updates
C2_Witness ==
    /\ calls = MaxUpdates
    /\ \/ \E g \in Gas : gn.state.soc[g] \notin {Soc(5), Soc(50), Soc(95)}
       \/ gn.state = GasNetworkBaseline

(***************************************************************************)
(* Claims on the agents                                                    *)
(***************************************************************************)
\* C3: after any sequence of step() calls with arbitrary observations, the
\* action BF_Agent returns has wind_volume in [1000, 8000], O2_enrichment
\* in [0, 6.0] and PCI in [0, 200], and the action BOF_Agent returns has
\* oxygen in [0, 60000]: no tier leaves a value outside its SafetyLimits
\* bound at the end of a step.
C3_ActionsWithinSafetyLimits ==
    /\ ret.call = "BF_Agent.step" =>
          /\ ret.value = bf.state
          /\ BF_WIND_MIN <= ret.value.wind_volume
          /\ ret.value.wind_volume <= BF_WIND_MAX
          /\ 0 <= ret.value.O2_enrichment /\ ret.value.O2_enrichment <= BF_O2_MAX
          /\ 0 <= ret.value.PCI /\ ret.value.PCI <= BF_PCI_MAX
    /\ ret.call = "BOF_Agent.step" =>
          /\ ret.value = bof.state
          /\ 0 <= ret.value.oxygen /\ ret.value.oxygen <= BOF_O2_MAX

\* the blast furnace agent has been driven to a limit: the wind volume
\* sits on its floor, or the wind volume and the coal rate sit on their
\* ceilings
C3_WitnessBF ==
    /\ ret.call = "BF_Agent.step"
    /\ \/ ret.value.wind_volume = BF_WIND_MIN
       \/ ret.value.wind_volume = BF_WIND_MAX /\ ret.value.PCI = BF_PCI_MAX

C3_Witness ==
    /\ ret.call = "BOF_Agent.step"
    /\ ret.value.oxygen = BOF_O2_MAX
    /\ calls = MaxBOFSteps

C11_SurgeWarningHandledInTick ==
    [][(pc = "gh" /\ bof.time_to_next_blow <= 1)
        => /\ get_messages(bus, gh.agent_id, "bofg_surge_warning") # << >>
           /\ gh'.state.bofg_to_pp =
                  incremental_adjust(gh.state.bofg_to_pp, "decrease", 20, 5000, inf)
           /\ gh'.state.bofg_to_heating =
                  incremental_adjust(gh.state.bofg_to_heating, "decrease", 15, 3000, inf)]_vars

\* the tick of the failing run: the converter agent has just been stepped
\* at countdown 2, the bus is empty and the gas-holder agent is next
C11_WarningDue ==
    pc = "gh" /\ bof.time_to_next_blow <= 1 /\ bus = << >>

(***************************************************************************)
(* C12: a call of BOF_Agent.step with a message bus while the countdown    *)
(* time_to_next_blow is at most 2 appends exactly one message to the bus:  *)
(* a surge warning whose time_to_blow is the countdown before the step's   *)
(* decrement, whose expected_peak is 60000, whose duration is the agent's  *)
(* blow_duration and whose gh_soc is the observed SOC_bofg (0.5 when the   *)
(* observation has none).  With the countdown above 2, or without a bus,   *)
(* the call appends nothing.                                               *)
(***************************************************************************)
C12_OneSurgeWarningWithinHorizon ==
    [][(pc = "blow" /\ calls' = calls + 1)
        => LET sent == SubSeq(bus', Len(bus) + 1, Len(bus'))
           IN  /\ SubSeq(bus', 1, Len(bus)) = bus
               /\ IF ret'.message_bus /\ bof.time_to_next_blow <= 2
                  THEN /\ Len(sent) = 1
                       /\ sent[1].msg_type = "bofg_surge_warning"
                       /\ sent[1].data.time_to_blow = bof.time_to_next_blow
                       /\ sent[1].data.expected_peak = 60000
                       /\ sent[1].data.duration = bof.state.blow_duration
                       /\ sent[1].data.gh_soc =
                              obs_get(ret'.observations, "SOC_bofg", Soc(50))
                  ELSE sent = << >>]_vars

\* the 29th call (countdown 2 before it) was made with a bus and an
\* observed state of charge of 0.7, and its warning is on the bus
C12_Witness ==
    /\ pc = "blow" /\ calls = 29 /\ bof.time_to_next_blow = 1
    /\ ret.call = "BOF_Agent.step" /\ ret.message_bus
    /\ Len(bus) = 1
    /\ bus[1].data.time_to_blow = 2
    /\ bus[1].data.gh_soc = Soc(70)

(***************************************************************************)
(* C13: a GasHolder_Agent step whose BFG observation is over an upper      *)
(* threshold (SOC above 0.85 or pressure above 14) and neither in the      *)
(* emergency range (pressure above 16) nor near empty (SOC below 0.05)     *)
(* raises bfg_to_pp by 10 % up to 80000 and bfg_to_heating by 5 % up to    *)
(* 50000, and does nothing else to them: no drift to the nominal values.   *)
(***************************************************************************)
C13_OverBandIncreasesWithoutDrift ==
    [][(pc = "holder" /\ calls' = calls + 1)
        => LET soc == obs_get(ret'.observations, "soc_bfg", Soc(50))
               p   == obs_get(ret'.observations, "p_bfg", Kpa(12))
           IN  ((soc > Soc(85) \/ p > Kpa(14)) /\ p <= Kpa(16) /\ soc >= Soc(5))
               => /\ gh'.state.bfg_to_pp =
                        Min((gh.state.bfg_to_pp * 110) \div 100, 80000)
                  /\ gh'.state.bfg_to_heating =
                        Min((gh.state.bfg_to_heating * 105) \div 100, 50000)]_vars

\* the first step of an agent on SOC 0.92 and 15.2 kPa: 55000 and 31500,
\* where a drift after the increase would leave 53900 and 30870
C13_Witness ==
    /\ pc = "holder" /\ calls = 1
    /\ ret.call = "GasHolder_Agent.step"
    /\ ret.observations = [soc_bfg |-> Soc(92), p_bfg |-> Kpa10(152)]
    /\ gh.state.bfg_to_pp = 55000
    /\ gh.state.bfg_to_heating = 31500

\* the cap: three emergency steps bring bfg_to_pp to 80000, and an
\* over-band step leaves it there
C13_WitnessCapped ==
    /\ pc = "holder" /\ calls = 4
    /\ ret.observations = [soc_bfg |-> Soc(92), p_bfg |-> Kpa10(152)]
    /\ gh.state.bfg_to_pp = 80000

(***************************************************************************)
(* C14: in a GasHolder_Agent step without a surge warning, for each of the *)
(* three holders: with the pressure above 16 kPa the holder's outflows     *)
(* change by the emergency increase and nothing else; otherwise, with the  *)
(* SOC below 0.05, by the near-empty decrease and nothing else.  This      *)
(* holds for the three holders of one step independently.                  *)
(***************************************************************************)
C14_SurgeSeen ==
    ret'.message_bus /\ get_messages(bus', gh.agent_id, "bofg_surge_warning") # << >>

C14_up(v, step, cap) == Min((v * (100 + step)) \div 100, cap)

C14_down(v, step, floor) == Max((v * (100 - step)) \div 100, floor)

C14_SafetyBranchesReturnEarly ==
    [][(pc = "holder" /\ calls' = calls + 1 /\ ~C14_SurgeSeen)
        => LET o == ret'.observations
               s == gh.state
               t == gh'.state
               soc_bfg  == obs_get(o, "soc_bfg", Soc(50))
               p_bfg    == obs_get(o, "p_bfg", Kpa(12))
               soc_bofg == obs_get(o, "soc_bofg", Soc(50))
               p_bofg   == obs_get(o, "p_bofg", Kpa(12))
               soc_cog  == obs_get(o, "soc_cog", Soc(50))
               p_cog    == obs_get(o, "p_cog", Kpa(12))
           IN  /\ p_bfg > Kpa(16)
                    => /\ t.bfg_to_pp = C14_up(s.bfg_to_pp, 20, 80000)
                       /\ t.bfg_to_heating = C14_up(s.bfg_to_heating, 10, 50000)
               /\ (p_bfg <= Kpa(16) /\ soc_bfg < Soc(5))
                    => /\ t.bfg_to_pp = C14_down(s.bfg_to_pp, 20, 10000)
                       /\ t.bfg_to_heating = C14_down(s.bfg_to_heating, 20, 5000)
               /\ p_bofg > Kpa(16)
                    => /\ t.bofg_to_pp = C14_up(s.bofg_to_pp, 20, 40000)
                       /\ t.bofg_to_heating = s.bofg_to_heating
               /\ (p_bofg <= Kpa(16) /\ soc_bofg < Soc(5))
                    => /\ t.bofg_to_pp = C14_down(s.bofg_to_pp, 20, 5000)
                       /\ t.bofg_to_heating = s.bofg_to_heating
               /\ p_cog > Kpa(16)
                    => /\ t.cog_to_heating = C14_up(s.cog_to_heating, 20, 15000)
                       /\ t.cog_to_bf = s.cog_to_bf
               /\ (p_cog <= Kpa(16) /\ soc_cog < Soc(5))
                    => /\ t.cog_to_heating = C14_down(s.cog_to_heating, 20, 2000)
                       /\ t.cog_to_bf = C14_down(s.cog_to_bf, 20, 1000)]_vars

\* one step from the constructor's state, without a bus, that finds the
\* BFG holder under 0.05, the BOFG holder above 16 kPa and the COG holder
\* over its upper band: BFG near-empty decrease, BOFG emergency increase,
\* and the COG holder's out-of-band increase in the same step
C14_Witness ==
    /\ pc = "holder" /\ calls = 1
    /\ ret.call = "GasHolder_Agent.step" /\ ~ret.message_bus
    /\ ret.observations = [soc_bfg |-> Soc(3), soc_bofg |-> Soc(50),
                           p_bofg |-> Kpa(17), soc_cog |-> Soc(90)]
    /\ gh.state = [bfg_to_pp |-> 40000, bfg_to_heating |-> 24000,
                   bofg_to_pp |-> 24000, bofg_to_heating |-> 10000,
                   cog_to_heating |-> 8800, cog_to_bf |-> 5250]

(***************************************************************************)
(* C15: for every gas type, GasNetwork.update sets the new SOC to          *)
(* clip(old SOC + (production - consumption) / 3600 * timestep * 60 /      *)
(* capacity, 0.05, 0.95), where consumption is the sum of the demand       *)
(* entries whose label contains the type's tag (in its lower-case form);   *)
(* with production 100000, demands 50000 and 30000 on BFG, timestep 1 and  *)
(* SOC 0.5 the BFG SOC rises by 20000 / (60 * 400000), unclipped.          *)
(***************************************************************************)
\* the demand labels of the model that carry each tag
C15_Labels ==
    [bfg  |-> {"bfg_to_pp", "bfg_to_heating", "cog_to_bfg_mix"},
     bofg |-> {"bofg_to_pp", "bofg_to_heating", "BOFG_to_pp"},
     cog  |-> {"cog_to_heating", "cog_to_bf", "cog_to_bfg_mix"}]

RECURSIVE C15_Sum(_, _)
C15_Sum(dict, keys) ==
    IF keys = {} THEN 0
    ELSE LET k == CHOOSE x \in keys : TRUE
         IN  dict[k] + C15_Sum(dict, keys \ {k})

\* SOC units per Nm^3/h of net flow and minute: 1 / (60 * capacity)
C15_PerFlowMinute == [bfg |-> 3, bofg |-> 8, cog |-> 12]

C15_SocIntegration ==
    [][(ret'.call = "GasNetwork.update" /\ calls' = calls + 1)
        => /\ \A g \in Gas :
                LET production  == IF g \in DOMAIN ret'.gas_production
                                   THEN ret'.gas_production[g] ELSE 0
                    consumption == C15_Sum(ret'.gas_demands,
                                           C15_Labels[g] \cap DOMAIN ret'.gas_demands)
                    raw == gn.state.soc[g]
                           + (production - consumption) * ret'.timestep
                             * C15_PerFlowMinute[g]
                IN  gn'.state.soc[g] = IF raw < Soc(5) THEN Soc(5)
                                       ELSE IF raw > Soc(95) THEN Soc(95)
                                       ELSE raw
           /\ ( /\ gn.state.soc["bfg"] = Soc(50)
                /\ "bfg" \in DOMAIN ret'.gas_production
                /\ ret'.gas_production["bfg"] = 100000
                /\ ret'.gas_demands = [bfg_to_pp |-> 50000, bfg_to_heating |-> 30000]
                /\ ret'.timestep = 1 )
              => gn'.state.soc["bfg"] = Soc(50) + 60000]_vars

\* the example after one update, and a second update whose demand label is
\* in upper case and counts for BOFG
C15_Witness ==
    /\ ret.call = "GasNetwork.update" /\ calls = 1
    /\ ret.gas_production = [bfg |-> 100000, bofg |-> 30000, cog |-> 15000]
    /\ ret.gas_demands = [bfg_to_pp |-> 50000, bfg_to_heating |-> 30000]
    /\ ret.timestep = 1
    /\ gn.state.soc["bfg"] = Soc(50) + 60000

C15_WitnessUpperCase ==
    /\ ret.call = "GasNetwork.update"
    /\ "BOFG_to_pp" \in DOMAIN ret.gas_demands
    /\ ret.gas_production = [bfg |-> 100000, bofg |-> 5000000, cog |-> 3000000]
    /\ gn.state.soc["bofg"] \notin {Soc(5), Soc(50), Soc(95)}

(***************************************************************************)
(* C16: when the state-space model of a gas type fails during              *)
(* GasNetwork.update, update still completes for the three types: the SOC  *)
(* and the pressure of every type are what update gives without models,    *)
(* and the level of the failing type is its new SOC.                       *)
(***************************************************************************)
C16_ModelFailureFallsBack ==
    [][(ret'.call = "GasNetwork.update" /\ calls' = calls + 1
        /\ gn.use_state_space_models
        /\ \E g \in Gas : ret'.outcomes[g] = "raise")
        => LET plain == update(gn.state, FALSE, ret'.gas_production,
                               ret'.gas_demands, ret'.timestep,
                               [g \in Gas |-> "none"])
           IN  /\ gn'.state.soc = plain.soc
               /\ gn'.state.p = plain.p
               /\ \A g \in Gas : ret'.outcomes[g] = "raise"
                                   => gn'.state.level[g] = gn'.state.soc[g]]_vars

\* the BFG model failed and the BOFG model answered, in an update that
\* moved the BFG holder
C16_Witness ==
    /\ ret.call = "GasNetwork.update" /\ gn.use_state_space_models
    /\ ret.outcomes["bfg"] = "raise" /\ ret.outcomes["bofg"] = "level"
    /\ gn.state.soc["bfg"] \notin {Soc(5), Soc(50), Soc(95)}
    /\ gn.state.level["bfg"] = gn.state.soc["bfg"]
    /\ gn.state.level["bofg"] = ModelLevel
    /\ gn.state.soc["bofg"] # Soc(50)

(***************************************************************************)
(* C17: right after MAS_SimEnv.reset(), whatever steps came before, the    *)
(* time is 0, the bus is empty, the gas network is at its baseline and     *)
(* every field of the observation (the pressures, the supplies, T_furnace  *)
(* and the production figures included) has its initial default.           *)
(***************************************************************************)
C17_ResetRestoresInitialState ==
    (pc = "clear" /\ env.time = 0)
        => /\ bus = << >>
           /\ gn.state = GasNetworkBaseline
           /\ env.state = MAS_SimEnvInit(env.use_twins).state

\* a reset that followed at least one tick
C17_ResetAfterSteps ==
    pc = "clear" /\ env.time = 0 /\ calls > 0

\* what reset() does restore after steps: the time, the bus, the gas
\* network and the six fields it assigns
C17_ResetRestoresAssignedFields ==
    (pc = "clear" /\ env.time = 0)
        => /\ bus = << >>
           /\ gn.state = GasNetworkBaseline
           /\ \A k \in {"soc_bfg", "soc_bofg", "soc_cog", "Si", "T_hot_metal", "T_steel"} :
                 env.state[k] = MAS_SimEnvInit(env.use_twins).state[k]

(***************************************************************************)
(* C18, as the code orders a tick: the message bus is cleared, with the    *)
(* time and the bus clock untouched; the agents are stepped in the order   *)
(* BF, BOF, coke oven, gas holder, all on the observation the previous     *)
(* env.step (or reset) returned; only then, inside env.step, the time and  *)
(* the bus clock advance by one timestep and the twins and the gas network *)
(* are updated.  While the agents of a tick are stepped the bus clock is   *)
(* therefore the time at which the previous tick ended, one timestep       *)
(* behind the time the tick's own env.step sets.                           *)
(***************************************************************************)
C18_AgentPcs == {"bf", "bof", "co", "gh"}

C18_NextPc == [bf |-> "bof", bof |-> "co", co |-> "gh", gh |-> "env"]

C18_TickOrder ==
    [][/\ (pc = "clear" /\ pc' # "clear")
            => /\ pc' = "bf" /\ bus' = << >>
               /\ env' = env /\ busTime' = busTime /\ gn' = gn
       /\ (pc \in C18_AgentPcs)
            => /\ pc' = C18_NextPc[pc]
               /\ env' = env /\ busTime' = busTime /\ gn' = gn
       /\ (pc = "gh")
            => /\ DOMAIN acts' = {"BF", "BOF", "CokeOven", "GasHolder"}
               /\ acts'.BF = bf.state /\ acts'.BOF = bof.state
               /\ acts'.CokeOven = co.state /\ acts'.GasHolder = gh'.state
       /\ (pc = "env")
            => /\ env'.time = env.time + env.timestep
               /\ busTime' = env'.time
               /\ UNCHANGED <<agentVars, acts, bus>>]_vars

\* the third tick under way: the agents are being stepped at bus clock 2,
\* the time the second env.step set, and the env.step of this tick has
\* not yet advanced it to 3
C18_Witness ==
    /\ pc = "env" /\ calls = 2
    /\ env.time = 2 /\ busTime = 2
    /\ DOMAIN acts = {"BF", "BOF", "CokeOven", "GasHolder"}

(***************************************************************************)
(* C18 as stated: the tick begins by advancing the time and the bus clock, *)
(* then the bus is cleared and the agents are stepped, and the update of   *)
(* the twins and the gas network that ends the tick leaves the time alone. *)
(***************************************************************************)
C18_TimeAdvancedFirst ==
    [][/\ (pc = "clear" /\ pc' # "clear")
            => /\ pc' = "bf" /\ bus' = << >>
               /\ env'.time = env.time + env.timestep
               /\ busTime' = env'.time
       /\ (pc \in C18_AgentPcs)
            => /\ pc' = C18_NextPc[pc]
               /\ env' = env /\ busTime' = busTime /\ gn' = gn
       /\ (pc = "env")
            => env'.time = env.time]_vars

(***************************************************************************)
(* Claims on the reward                                                    *)
(***************************************************************************)
\* C19: calculate_reward returns stability_score == 1.0 if and only if the
\* three states of charge of next_state all lie in the closed band
\* [0.25, 0.85].
C19_InBand(soc) == Soc(25) <= soc /\ soc <= Soc(85)

C19_WitnessOutside ==
    /\ ret.call = "calculate_reward"
    /\ ret.next_state = [soc_bfg |-> Soc(50), soc_bofg |-> Soc(50), soc_cog |-> Soc(85) + 1]
    /\ ret.value.stability_score = SOC_ONE - 2

(***************************************************************************)
(* C20, within the range of the score: take a next state and a second one  *)
(* that differs from it in one state of charge only, both values outside   *)
(* the band on the same side and the second further from it.  The second   *)
(* state's stability_score is never larger, and it is strictly smaller     *)
(* whenever the first state's score is positive; when the first state's    *)
(* score is 0.0 (total penalty of 0.5 or more) both scores are 0.0.        *)
(***************************************************************************)
C20_Fields == {"soc_bfg", "soc_bofg", "soc_cog"}

\* v is further outside the band than u, on the same side
C20_Further(u, v) ==
    \/ u < Soc(25) /\ v < u
    \/ u > Soc(85) /\ v > u

C20_Score(next_state) == calculate_reward(next_state).stability_score

C20_WitnessSaturated ==
    /\ ret.call = "calculate_reward"
    /\ ret.next_state = [soc_bfg |-> Soc(5), soc_bofg |-> Soc(5), soc_cog |-> Soc(10)]
    /\ ret.value.stability_score = 0

C21_ResultsWithinBounds ==
    ret.call = "incremental_adjust"
        => ret.min_val <= ret.value /\ ret.value <= ret.max_val

\* a sequence that started below the lower bound, was raised to it by the
\* clamp and was then increased up to the upper bound
C21_Witness ==
    /\ ret.call = "incremental_adjust" /\ calls = MaxAdjusts
    /\ ret.min_val = 10 /\ ret.max_val = 100
    /\ ret.direction = "increase"
    /\ ret.current_value < ret.max_val
    /\ ret.value = ret.max_val

\* a first call whose starting value lies below the lower bound
C21_WitnessFromBelow ==
    /\ ret.call = "incremental_adjust" /\ calls = 1
    /\ ret.current_value = -500 /\ ret.direction = "decrease"
    /\ ret.min_val = -100 /\ ret.value = -100

(***************************************************************************)
(* Claims on the agents' reaction to the environment's observation         *)
(***************************************************************************)
\* C22: when the observation the environment hands out reports the BFG
\* holder as too full (soc_bfg above 0.85 or p_bfg above 14 kPa), the
\* BF agent's step on that observation applies its buffer-full rule: it
\* sets gh_full_action_active and decreases wind_volume (not below 1000).
C22_ReportsFull(observations) ==
    observations.soc_bfg > Soc(85) \/ observations.p_bfg > Kpa(14)

C22_FullBufferReducesWind ==
    [][(pc = "scenario_bf" /\ C22_ReportsFull(ret.value))
        => /\ bf'.hysteresis_states.gh_full_action_active
           /\ bf'.state.wind_volume < bf.state.wind_volume
           /\ bf'.state.wind_volume >= BF_WIND_MIN]_vars

\* the program's own scenario: soc_bfg 0.90 and p_bfg 15.0 on the reset
\* observation, BF agent stepped, wind_volume still 4000
C22_WindUnchanged ==
    /\ pc = "scenario_gh"
    /\ ret.value.soc_bfg = Soc(90) /\ ret.value.p_bfg = Kpa(15)
    /\ bf.state.wind_volume = 40000
    /\ ~bf.hysteresis_states.gh_full_action_active

\* the gas-holder agent, which reads the keys the environment writes, does
\* react to the same observation
C22_HolderReacts ==
    (pc = "scenario_done" /\ C22_ReportsFull(ret.value))
        => gh.state.bfg_to_pp = 55000 /\ gh.state.bfg_to_heating = 31500

(***************************************************************************)
(* C23: in a GasHolder_Agent step that found a surge warning on the bus,   *)
(* the pre-emptive reduction of bofg_to_pp (20 %, not below 5000) and of   *)
(* bofg_to_heating (15 %, not below 3000) is applied and the BOFG cascade  *)
(* then still runs: with the BOFG pressure above 16 kPa the emergency      *)
(* increase of bofg_to_pp (20 %, up to 40000) is applied to the reduced    *)
(* value.                                                                  *)
(***************************************************************************)
C23_EmergencyAfterSurgeReduction ==
    [][(pc = "holder" /\ calls' = calls + 1 /\ C14_SurgeSeen
        /\ obs_get(ret'.observations, "p_bofg", Kpa(12)) > Kpa(16))
        => /\ gh'.state.bofg_to_pp =
                 C14_up(C14_down(gh.state.bofg_to_pp, 20, 5000), 20, 40000)
           /\ gh'.state.bofg_to_heating =
                 C14_down(gh.state.bofg_to_heating, 15, 3000)]_vars

\* the failing step: an agent built with the id the warning is addressed
\* to, one warning on the bus, BOFG at 17 kPa; the outflows are reduced to
\* 16000 and 8500 and the emergency increase is not applied
C23_SurgeSkipsEmergency ==
    /\ pc = "holder" /\ calls = 1
    /\ gh.agent_id = "GasHolderAgent"
    /\ ret.message_bus /\ bus # << >>
    /\ obs_get(ret.observations, "p_bofg", Kpa(12)) = Kpa(17)
    /\ gh.state.bofg_to_pp = 16000 /\ gh.state.bofg_to_heating = 8500

\* what the code does on a surge warning: the reduction and nothing else
\* for BOFG, whatever the BOFG observation
C23_SurgeReductionOnly ==
    [][(pc = "holder" /\ calls' = calls + 1 /\ C14_SurgeSeen)
        => /\ gh'.state.bofg_to_pp = C14_down(gh.state.bofg_to_pp, 20, 5000)
           /\ gh'.state.bofg_to_heating =
                 C14_down(gh.state.bofg_to_heating, 15, 3000)]_vars


(***************************************************************************)
(* C24: in a GasHolder_Agent step without a surge warning, for each of     *)
(* BFG, BOFG and COG: when that holder's SOC is strictly between 0.35 and  *)
(* 0.75 and its pressure strictly between 10 and 13 kPa, each of its       *)
(* outflows that differs from its nominal value (the value the constructor *)
(* gives it) moves toward that value.                                      *)
(***************************************************************************)
C24_MidBand(soc, p) ==
    Soc(35) < soc /\ soc < Soc(75) /\ Kpa(10) < p /\ p < Kpa(13)

C24_Toward(old, new, nominal) ==
    /\ (old > nominal => new < old)
    /\ (old < nominal => new > old)

C24_MidBandDriftsEveryHolder ==
    [][(pc = "holder" /\ calls' = calls + 1 /\ ~C14_SurgeSeen)
        => LET o == ret'.observations
               s == gh.state
               t == gh'.state
               n == GasHolder_AgentInit.state
           IN  /\ C24_MidBand(obs_get(o, "soc_bfg", Soc(50)),
                              obs_get(o, "p_bfg", Kpa(12)))
                    => /\ C24_Toward(s.bfg_to_pp, t.bfg_to_pp, n.bfg_to_pp)
                       /\ C24_Toward(s.bfg_to_heating, t.bfg_to_heating,
                                     n.bfg_to_heating)
               /\ C24_MidBand(obs_get(o, "soc_bofg", Soc(50)),
                              obs_get(o, "p_bofg", Kpa(12)))
                    => /\ C24_Toward(s.bofg_to_pp, t.bofg_to_pp, n.bofg_to_pp)
                       /\ C24_Toward(s.bofg_to_heating, t.bofg_to_heating,
                                     n.bofg_to_heating)
               /\ C24_MidBand(obs_get(o, "soc_cog", Soc(50)),
                              obs_get(o, "p_cog", Kpa(12)))
                    => /\ C24_Toward(s.cog_to_heating, t.cog_to_heating,
                                     n.cog_to_heating)
                       /\ C24_Toward(s.cog_to_bf, t.cog_to_bf, n.cog_to_bf)]_vars

\* the failing run: an emergency step raises bofg_to_pp to 24000 and
\* cog_to_heating stays at 8000; a step on the default observation (every
\* holder at SOC 0.5 and 12 kPa) then leaves bofg_to_pp at 24000
C24_BofgStaysOffNominal ==
    /\ pc = "holder" /\ calls = 2
    /\ ret.observations = << >> /\ ~ret.message_bus
    /\ gh.state.bofg_to_pp = 24000

\* what the code does: the BFG outflows drift, the BOFG and COG outflows
\* are left as they are
C24_OnlyBfgDrifts ==
    [][(pc = "holder" /\ calls' = calls + 1 /\ ~C14_SurgeSeen)
        => LET o == ret'.observations
               s == gh.state
               t == gh'.state
           IN  /\ C24_MidBand(obs_get(o, "soc_bfg", Soc(50)),
                              obs_get(o, "p_bfg", Kpa(12)))
                    => /\ C24_Toward(s.bfg_to_pp, t.bfg_to_pp, 50000)
                       /\ C24_Toward(s.bfg_to_heating, t.bfg_to_heating, 30000)
               /\ C24_MidBand(obs_get(o, "soc_bofg", Soc(50)),
                              obs_get(o, "p_bofg", Kpa(12)))
                    => /\ t.bofg_to_pp = s.bofg_to_pp
                       /\ t.bofg_to_heating = s.bofg_to_heating
               /\ C24_MidBand(obs_get(o, "soc_cog", Soc(50)),
                              obs_get(o, "p_cog", Kpa(12)))
                    => /\ t.cog_to_heating = s.cog_to_heating
                       /\ t.cog_to_bf = s.cog_to_bf]_vars


(***************************************************************************)
(* SpecFurnace: the blast furnace agent alone, stepped any number of times *)
(* without a bus on observations that put Si on either side of each band   *)
(* edge, fill or empty the BFG holder and switch the peak tariff.  ret     *)
(* keeps the observations of the last call.                                *)
(***************************************************************************)
MaxFurnaceSteps == 4

\* Si_target is 0.45 and Si_band 0.03: the outer band edges are 0.42 and
\* 0.48, the half band edges 0.435 and 0.465
FurnaceObservations ==
    { << >>,
      [Si |-> 490],
      [Si |-> 470],
      [Si |-> 460],
      [Si |-> 410],
      [Si |-> 430],
      [peak_electricity |-> TRUE],
      [P_bfg |-> Kpa(15), peak_electricity |-> TRUE],
      [Si |-> 400, SOC_bfg |-> Soc(90), peak_electricity |-> TRUE],
      [SOC_bfg |-> Soc(90), P_bfg |-> Kpa(8), peak_electricity |-> TRUE],
      [SOC_bfg |-> Soc(20)] }

FurnaceStep ==
    /\ pc = "furnace"
    /\ calls < MaxFurnaceSteps
    /\ \E observations \in FurnaceObservations :
         /\ bf' = BF_step(bf, observations)
         /\ ret' = [call |-> "BF_Agent.step", value |-> bf'.state,
                    observations |-> observations]
    /\ calls' = calls + 1
    /\ UNCHANGED <<bus, busTime, sentLog, primVars, netVars, bof, co, gh, loopVars>>

InitFurnace ==
    /\ BusIdle /\ HyIdle /\ AlIdle /\ NetIdle /\ AgentsIdle /\ calls = 0
    /\ env = MAS_SimEnvInit(FALSE) /\ acts = << >>
    /\ pc = "furnace"

NextFurnace == FurnaceStep

SpecFurnace == InitFurnace /\ [][NextFurnace]_vars

(***************************************************************************)
(* C25: every BF_Agent.step runs Level 1 (safety), Level 2 (process),      *)
(* Level 3 (energy) and Level 4 (economic) in this order, each on what the *)
(* one before left, none skipped and none undone.  On wind_volume: the     *)
(* value is clamped to [1000, 8000] (Level 1), raised by 10 % up to 8000   *)
(* when Si is below the outer band (Level 2), lowered by 15 % down to 1000 *)
(* when the BFG holder is full and then raised by 15 % up to 8000 when it  *)
(* is empty (Level 3), and lowered by 5 % down to 1000 at peak tariff      *)
(* (Level 4).  With a full holder at peak tariff and nothing else acting,  *)
(* the result is the clamped value lowered by 15 % and then by 5 %.        *)
(***************************************************************************)
C25_lower(v, percent) == Max((v * (100 - percent)) \div 100, BF_WIND_MIN)

C25_raise(v, percent) == Min((v * (100 + percent)) \div 100, BF_WIND_MAX)

C25_wind(w, o) ==
    LET Si   == obs_get(o, "Si", 450)
        soc  == obs_get(o, "SOC_bfg", Soc(50))
        p    == obs_get(o, "P_bfg", Kpa(12))
        peak == obs_get(o, "peak_electricity", FALSE)
        w1 == Max(BF_WIND_MIN, Min(BF_WIND_MAX, w))
        w2 == IF Si < 420 THEN C25_raise(w1, 10) ELSE w1
        w3 == IF soc > Soc(85) \/ p > Kpa(14) THEN C25_lower(w2, 15) ELSE w2
        w4 == IF soc < Soc(25) \/ p < Kpa(9) THEN C25_raise(w3, 15) ELSE w3
    IN  IF peak THEN C25_lower(w4, 5) ELSE w4

C25_WitnessThreeTiers ==
    /\ pc = "furnace" /\ calls = 1
    /\ ret.observations = [Si |-> 400, SOC_bfg |-> Soc(90), peak_electricity |-> TRUE]
    /\ bf.state.wind_volume = 35530


(***************************************************************************)
(* C26: the Level 2 correction of BF_Agent follows its hysteresis flags.   *)
(* In every step, after the band evaluation of that step: PCI and          *)
(* O2_enrichment are lowered by the high-Si correction exactly when        *)
(* si_high_action_active is true, and PCI and wind_volume are raised by    *)
(* the low-Si correction exactly when si_low_action_active is true.  A     *)
(* flag is set when Si is beyond the outer band edge (0.48, 0.42), cleared *)
(* when Si is back inside the half band edge (0.465, 0.435) and unchanged  *)
(* in between.  Stated on steps whose observation carries Si alone, where  *)
(* no other level touches PCI, O2_enrichment or wind_volume.               *)
(***************************************************************************)
C26_SiOnly(o) == DOMAIN o \subseteq {"Si"}

C26_HighApplied ==
    /\ bf'.state.PCI = (bf.state.PCI * 90) \div 100
    /\ bf'.state.O2_enrichment = (bf.state.O2_enrichment * 90) \div 100

C26_HighNotApplied ==
    \/ bf'.state.O2_enrichment = bf.state.O2_enrichment
    \/ bf'.state.PCI >= bf.state.PCI

C26_LowApplied ==
    /\ bf'.state.PCI = Min((bf.state.PCI * 110) \div 100, BF_PCI_MAX)
    /\ bf'.state.wind_volume = Min((bf.state.wind_volume * 110) \div 100, BF_WIND_MAX)

C26_LowNotApplied ==
    bf'.state.wind_volume = bf.state.wind_volume

C26_FlagsFollowBands ==
    LET Si == obs_get(ret'.observations, "Si", 450)
        h  == bf.hysteresis_states
        g  == bf'.hysteresis_states
    IN  /\ g.si_high_action_active =
              (IF Si > 480 THEN TRUE
               ELSE IF Si < 465 THEN FALSE ELSE h.si_high_action_active)
        /\ g.si_low_action_active =
              (IF Si < 420 THEN TRUE
               ELSE IF Si > 435 THEN FALSE ELSE h.si_low_action_active)

C26_CorrectionFollowsFlags ==
    [][(pc = "furnace" /\ calls' = calls + 1 /\ C26_SiOnly(ret'.observations))
        => /\ C26_FlagsFollowBands
           /\ IF bf'.hysteresis_states.si_high_action_active
              THEN C26_HighApplied ELSE C26_HighNotApplied
           /\ IF bf'.hysteresis_states.si_low_action_active
              THEN C26_LowApplied ELSE C26_LowNotApplied]_vars

\* the failing run: Si 0.49 sets si_high_action_active and lowers PCI to
\* 135 and O2_enrichment to 3.15; Si 0.47 leaves the flag set and the two
\* values where they are
C26_FlagSetWithoutCorrection ==
    /\ pc = "furnace" /\ calls = 2
    /\ ret.observations = [Si |-> 470]
    /\ bf.hysteresis_states.si_high_action_active
    /\ bf.state.PCI = 13500 /\ bf.state.O2_enrichment = 3150

\* what the code does: the flags follow the bands, and the correction is
\* applied exactly in the steps whose Si is beyond an outer band edge
C26_CorrectionFollowsOuterBand ==
    [][(pc = "furnace" /\ calls' = calls + 1 /\ C26_SiOnly(ret'.observations))
        => LET Si == obs_get(ret'.observations, "Si", 450)
           IN  /\ C26_FlagsFollowBands
               /\ IF Si > 480 THEN C26_HighApplied ELSE C26_HighNotApplied
               /\ IF Si < 420 THEN C26_LowApplied ELSE C26_LowNotApplied]_vars


(***************************************************************************)
(* C27: a BOF_Agent stepped from its construction has, after its k-th      *)
(* step, the countdown time_to_next_blow at 30 - k, or at 0 once that      *)
(* would be negative: it goes down by 1 per step, is never negative and    *)
(* never starts again.  A step made with a message bus sends no surge      *)
(* warning when it is one of the first 28 and exactly one when it is the   *)
(* 29th or a later one.                                                    *)
(***************************************************************************)
C27_CountdownAndWarnings ==
    [][(pc = "blow" /\ calls' = calls + 1)
        => /\ bof.time_to_next_blow = Max(0, 30 - calls)
           /\ bof'.time_to_next_blow = Max(0, bof.time_to_next_blow - 1)
           /\ bof'.time_to_next_blow >= 0
           /\ ret'.message_bus
                => Len(bus') = Len(bus) + (IF calls' >= 29 THEN 1 ELSE 0)]_vars

\* 31 steps, all of them with a bus: the countdown ran out at the 30th
\* and stayed at 0, and the 29th, 30th and 31st step each sent a warning
C27_Witness ==
    /\ pc = "blow" /\ calls = 31 /\ bof.time_to_next_blow = 0
    /\ ret.message_bus
    /\ Len(bus) = 3
    /\ bus[1].data.time_to_blow = 2
    /\ bus[2].data.time_to_blow = 1
    /\ bus[3].data.time_to_blow = 0


(***************************************************************************)
(* SpecEnvelope: the gas-holder agent over long runs.  One agent, built    *)
(* with the id surge warnings are addressed to, is stepped on an           *)
(* observation that drives all three holders the same way (over-pressure,  *)
(* near empty, over-full, or the defaults) and persists until the holders  *)
(* are back at the defaults for the rest of the run, each step with or     *)
(* without a surge warning on the bus, long enough for every outflow to    *)
(* meet its upper and its lower limit and to drift back from an            *)
(* excursion.  ret keeps the arguments of the last call.                   *)
(***************************************************************************)
MaxEnvelopeSteps == 15

EnvelopeObservations ==
    { << >>,
      [p_bfg |-> Kpa(17), p_bofg |-> Kpa(17), p_cog |-> Kpa(17)],
      [soc_bfg |-> Soc(3), soc_bofg |-> Soc(3), soc_cog |-> Soc(3)],
      [soc_bfg |-> Soc(90), soc_bofg |-> Soc(90), soc_cog |-> Soc(90)] }

EnvelopeStep ==
    /\ pc = "envelope"
    /\ calls < MaxEnvelopeSteps
    /\ \E observations \in (IF calls = 0 THEN EnvelopeObservations
                             ELSE {ret.observations, << >>}),
          has_bus \in BOOLEAN :
         LET messages == IF has_bus
                         THEN <<BOFGSurgeWarning(2, 60000, 18, Soc(50), 0)>>
                         ELSE << >>
         IN  /\ bus' = messages
             /\ gh' = GH_step(gh, observations, has_bus, messages)
             /\ ret' = [call |-> "GasHolder_Agent.step", value |-> gh'.state,
                        observations |-> observations, message_bus |-> has_bus]
    /\ calls' = calls + 1
    /\ UNCHANGED <<busTime, sentLog, primVars, netVars, bf, bof, co, loopVars>>

InitEnvelope ==
    /\ BusIdle /\ HyIdle /\ AlIdle /\ NetIdle /\ calls = 0
    /\ bf = BF_AgentInit /\ bof = BOF_AgentInit /\ co = CokeOven_AgentInit
    /\ gh = [GasHolder_AgentInit EXCEPT !.agent_id = "GasHolderAgent"]
    /\ env = MAS_SimEnvInit(FALSE) /\ acts = << >>
    /\ pc = "envelope"

NextEnvelope == EnvelopeStep

SpecEnvelope == InitEnvelope /\ [][NextEnvelope]_vars

(***************************************************************************)
(* C28: after every GasHolder_Agent.step, whatever the observations and    *)
(* the warnings were, bfg_to_pp is in [10000, 80000], bfg_to_heating in    *)
(* [5000, 50000], bofg_to_pp in [5000, 40000], bofg_to_heating in          *)
(* [3000, 10000], cog_to_heating in [2000, 15000] and cog_to_bf in         *)
(* [1000, 10000], and surge_warning_active is false.                       *)
(***************************************************************************)
C28_OutflowsWithinEnvelope ==
       /\ 10000 <= gh.state.bfg_to_pp      /\ gh.state.bfg_to_pp <= 80000
       /\ 5000 <= gh.state.bfg_to_heating  /\ gh.state.bfg_to_heating <= 50000
       /\ 5000 <= gh.state.bofg_to_pp      /\ gh.state.bofg_to_pp <= 40000
       /\ 3000 <= gh.state.bofg_to_heating /\ gh.state.bofg_to_heating <= 10000
       /\ 2000 <= gh.state.cog_to_heating  /\ gh.state.cog_to_heating <= 15000
       /\ 1000 <= gh.state.cog_to_bf       /\ gh.state.cog_to_bf <= 10000
       /\ ~gh.surge_warning_active

\* a run that saw a warning in its last step and has four outflows on
\* their lower limits
C28_Witness ==
    /\ pc = "envelope" /\ calls > 0
    /\ ret.message_bus /\ bus # << >>
    /\ gh.state.bfg_to_pp = 10000
    /\ gh.state.bofg_to_pp = 5000 /\ gh.state.bofg_to_heating = 3000
    /\ gh.state.cog_to_bf = 1000

\* a run with four outflows on their upper limits
C28_WitnessCaps ==
    /\ pc = "envelope" /\ calls > 0
    /\ gh.state.bfg_to_pp = 80000 /\ gh.state.bfg_to_heating = 50000
    /\ gh.state.cog_to_heating = 15000 /\ gh.state.cog_to_bf = 10000


(***************************************************************************)
(* C29: in a GasHolder_Agent step whose BFG observation is mid-band (SOC   *)
(* strictly between 0.35 and 0.75, pressure strictly between 10 and 13)    *)
(* the drift does not overshoot: bfg_to_pp ends no farther from 50000 and  *)
(* bfg_to_heating no farther from 30000 than it was before the step.       *)
(***************************************************************************)
C29_Distance(v, nominal) == IF v >= nominal THEN v - nominal ELSE nominal - v

C29_DriftNeverOvershoots ==
    [][(pc = "envelope" /\ calls' = calls + 1
        /\ C24_MidBand(obs_get(ret'.observations, "soc_bfg", Soc(50)),
                       obs_get(ret'.observations, "p_bfg", Kpa(12))))
        => /\ C29_Distance(gh'.state.bfg_to_pp, 50000)
                <= C29_Distance(gh.state.bfg_to_pp, 50000)
           /\ C29_Distance(gh'.state.bfg_to_heating, 30000)
                <= C29_Distance(gh.state.bfg_to_heating, 30000)]_vars

\* the failing run: one over-full step takes bfg_to_pp to 55000; five
\* mid-band steps bring it down past 50000 to 49714, and the sixth takes it
\* back up past 50000 to 50708, farther from the nominal value than before
C29_DriftOscillates ==
    /\ pc = "envelope" /\ calls = 7
    /\ ret.observations = << >>
    /\ gh.state.bfg_to_pp = 50708

\* what the drift does guarantee: a mid-band step changes an outflow by at
\* most 2 % (and the rounding to the unit) and leaves an outflow that is on
\* its nominal value there
C29_DriftStepBounded ==
    [][(pc = "envelope" /\ calls' = calls + 1
        /\ C24_MidBand(obs_get(ret'.observations, "soc_bfg", Soc(50)),
                       obs_get(ret'.observations, "p_bfg", Kpa(12))))
        => /\ 100 * C29_Distance(gh'.state.bfg_to_pp, gh.state.bfg_to_pp)
                <= 2 * gh.state.bfg_to_pp + 100
           /\ gh.state.bfg_to_pp = 50000 => gh'.state.bfg_to_pp = 50000]_vars


(***************************************************************************)
(* SpecOven: the coke-oven agent alone, stepped tick after tick without    *)
(* end on observations of the COG holder's state of charge (near empty,    *)
(* normal, high, over-full), the furnace at its default temperature.       *)
(* Every quantity of the agent is limited, so the run needs no bound.  ret *)
(* keeps the observations of the last call.                                *)
(* SpecOvenLive adds that the ticks keep coming.                           *)
(***************************************************************************)
OvenObservations ==
    { << >>,
      [SOC_cog |-> Soc(10)],
      [SOC_cog |-> Soc(20)],
      [SOC_cog |-> Soc(90)],
      [SOC_cog |-> Soc(80)] }

OvenStep ==
    /\ pc = "oven"
    /\ \E observations \in OvenObservations :
         /\ co' = CO_step(co, observations)
         /\ ret' = [call |-> "CokeOven_Agent.step", value |-> co'.state,
                    observations |-> observations]
    /\ UNCHANGED <<bus, busTime, sentLog, primVars, netVars, bf, bof, gh,
                   loopVars, calls>>

InitOven ==
    /\ BusIdle /\ HyIdle /\ AlIdle /\ NetIdle /\ AgentsIdle /\ calls = 0
    /\ env = MAS_SimEnvInit(FALSE) /\ acts = << >>
    /\ pc = "oven"

NextOven == OvenStep

SpecOven == InitOven /\ [][NextOven]_vars

SpecOvenLive == SpecOven /\ WF_vars(OvenStep)


(***************************************************************************)
(* C30: pushing_rate of the coke-oven agent is between 0.7 and 1.2 in      *)
(* every reachable state; a step that observes a near-empty COG holder     *)
(* (SOC_cog below 0.25) never lowers it; and when from some tick on every  *)
(* step observes a near-empty holder, pushing_rate eventually reaches its  *)
(* upper limit 1.2.                                                        *)
(***************************************************************************)
C30_NearEmptyStep ==
    /\ "observations" \in DOMAIN ret
    /\ obs_get(ret.observations, "SOC_cog", Soc(50)) < Soc(25)

C30_NearEmptyReachesCap ==
    /\ [](7000 <= co.state.pushing_rate /\ co.state.pushing_rate <= 12000)
    /\ [][(pc = "oven" /\ C30_NearEmptyStep')
            => co'.state.pushing_rate >= co.state.pushing_rate]_vars
    /\ (<>[]C30_NearEmptyStep) => <>(co.state.pushing_rate = 12000)

\* the two parts of the statement that hold
C30_RateWithinLimits ==
    7000 <= co.state.pushing_rate /\ co.state.pushing_rate <= 12000

C30_NearEmptyNeverLowers ==
    [][(pc = "oven" /\ C30_NearEmptyStep')
        => co'.state.pushing_rate >= co.state.pushing_rate]_vars

\* the part that fails
C30_EventuallyCap ==
    (<>[]C30_NearEmptyStep) => <>(co.state.pushing_rate = 12000)

\* where the rate stays under near-empty observations: at 1.03, and never
\* above it in any run
C30_PinnedAtNormalPlusStep ==
    /\ pc = "oven" /\ C30_NearEmptyStep
    /\ co.state.pushing_rate = 10300

C30_RateNeverAbovePin == co.state.pushing_rate <= 10300

====
